---- MODULE Spec2Model ----
(***************************************************************************)
(* Resume analysis agent (agents/core/agent.py) with the resume loader of  *)
(* agents/Resume_Praser/improved_resume.py and the enrichment entry points *)
(* of Github_Praser and Linkedin_Praser.                                   *)
(*                                                                         *)
(* A session is a LangGraph thread: the compiled workflow keeps, per       *)
(* thread id, the snapshots of the ResumeState it has written.  The        *)
(* persistent Chroma collections live on disk, one per derived username.   *)
(***************************************************************************)
EXTENDS Integers, Sequences, FiniteSets, TLC

VARIABLES
    snaps,      \* per session: the checkpointed ResumeState snapshots, newest first
    pc,         \* per session: position of the running workflow ("idle" when none runs)
    trace,      \* per session: the stages the current/last workflow run has executed
    pending,    \* per session: documents awaiting aadd_documents in create_persistent_vectorstore
    result,     \* per session: what the last finished API call returned
    lastResume, \* per session: the path last given to process_resume_from_file and its result
    turns,      \* per session: every conversation turn any call has produced, in order
    chroma,     \* username -> items of the persistent collection resume_collection_<username>
    disk,       \* resume path -> the file behind it
    now,        \* wall clock, in seconds
    events,     \* number of API calls made and of external failures met so far
    upath,      \* extract_username_from_resume study: the path under study
    uname,      \* extract_username_from_resume study: identifiers returned so far
    github,     \* GitHubParser.parse_github_user: the locals of the call under way
    ghlinks,    \* GitHubLinkParser.analyze_github_links: the locals of the call under way
    linkedin,   \* analyze_linkedin_profile: the locals of the call under way
    pdf,        \* extract_hyperlinks_from_pdf: the locals of the call under way
    sections,   \* split_resume_into_sections: the locals of the call under way
    backend     \* the HTTP backend: active_sessions and the requests served

vars == <<snaps, pc, trace, pending, result, lastResume, turns,
          chroma, disk, now, events, upath, uname,
          github, ghlinks, linkedin, pdf, sections, backend>>

(***************************************************************************)
(* Bounds of the model.                                                    *)
(***************************************************************************)
MaxEvents == 3      \* API calls plus failures of external services explored
MaxNow == 2         \* clock values explored in the username study
MaxExtracts == 2    \* extract_username_from_resume calls explored in the username study

Sessions == {"s1", "s2"}
Queries == {"q1", "q2"}

None == <<>>
Some(x) == <<x>>
IsSet(o) == o # <<>>
Val(o) == o[1]

(***************************************************************************)
(* Resume paths.  A path is a directory, a base name (a sequence of        *)
(* characters) and an extension.                                           *)
(***************************************************************************)
Paths == {"Ann.pdf", "b/ann.PDF", "bob.txt", "e.v.xyz", "cv.pdf"}
StudyPaths == Paths \cup {"Resume.docx", "a-b.md"}

BaseName(p) ==
    CASE p = "Ann.pdf"   -> <<"A", "n", "n">>
      [] p = "b/ann.PDF" -> <<"a", "n", "n">>
      [] p = "bob.txt"   -> <<"b", "o", "b">>
      [] p = "e.v.xyz"   -> <<"e", ".", "v">>
      [] p = "cv.pdf"    -> <<"c", "v">>
      [] p = "Resume.docx" -> <<"R", "e", "s", "u", "m", "e">>
      [] p = "a-b.md"    -> <<"a", "-", "b">>

Extension(p) ==
    CASE p = "Ann.pdf"   -> ".pdf"
      [] p = "b/ann.PDF" -> ".PDF"
      [] p = "bob.txt"   -> ".txt"
      [] p = "e.v.xyz"   -> ".xyz"
      [] p = "cv.pdf"    -> ".pdf"
      [] p = "Resume.docx" -> ".docx"
      [] p = "a-b.md"    -> ".md"

\* str.lower() on the characters and extensions that occur
Lower(c) ==
    CASE c = "A" -> "a"
      [] c = "C" -> "c"
      [] c = "V" -> "v"
      [] c = "R" -> "r"
      [] c = ".PDF" -> ".pdf"
      [] OTHER -> c

LowerSeq(s) == [i \in 1..Len(s) |-> Lower(s[i])]

\* the characters [\w\-_] keeps
WordChars == {"a", "b", "c", "e", "m", "n", "o", "r", "s", "u", "v",
              "A", "C", "R", "V", "_", "-"}

\* re.sub(r'[^\w\-_]', '_', s)
CleanSeq(s) == [i \in 1..Len(s) |-> IF s[i] \in WordChars THEN s[i] ELSE "_"]

\* the names too generic to identify a candidate (agent.py:89)
GenericNames == {<<"r", "e", "s", "u", "m", "e">>, <<"c", "v">>,
                 <<"d", "o", "c", "u", "m", "e", "n", "t">>}
MinNameLen == 3

\* A derived username.  "name": the cleaned file name; "hash": user_<md5 of
\* path, mtime and size> (the digest is kept as the triple it is computed from);
\* "time": user_<timestamp of the call>.
UserName(kind, name, path, mtime, size, at) ==
    [kind |-> kind, name |-> name, path |-> path, mtime |-> mtime, size |-> size, at |-> at]

\* the hash taken over the time of the call instead of the modification time
extract_username_from_resume_call_time(p, d, t) ==
    LET username == CleanSeq(LowerSeq(BaseName(p)))
    IN  IF username \in GenericNames \/ Len(username) < MinNameLen
        THEN IF d[p].exists
             THEN UserName("hash", <<>>, p, t, d[p].size, 0)
             ELSE UserName("time", <<>>, "", 0, 0, t)
        ELSE UserName("name", username, "", 0, 0, 0)

extract_username_from_resume(p, d, t) ==
    LET username == CleanSeq(LowerSeq(BaseName(p)))
    IN  IF username \in GenericNames \/ Len(username) < MinNameLen
        THEN IF d[p].exists
             THEN UserName("hash", <<>>, p, d[p].mtime, d[p].size, 0)
             ELSE UserName("time", <<>>, "", 0, 0, t)   \* os.stat raised
        ELSE UserName("name", username, "", 0, 0, 0)

DefaultUser == UserName("name", <<"d", "e", "f", "a", "u", "l", "t">>, "", 0, 0, 0)

(***************************************************************************)
(* The files on disk.  chunks is the number of documents the section       *)
(* splitter makes of the text (0: the text is blank).                      *)
(***************************************************************************)
File(exists, mtime, size, chunks) ==
    [exists |-> exists, mtime |-> mtime, size |-> size, chunks |-> chunks]

InitialDisk ==
    [p \in StudyPaths |->
        CASE p = "Ann.pdf"   -> File(TRUE, 1, 7, 4)
          [] p = "b/ann.PDF" -> File(TRUE, 1, 5, 2)
          [] p = "bob.txt"   -> File(TRUE, 1, 0, 0)
          [] p = "e.v.xyz"   -> File(TRUE, 1, 3, 1)
          [] OTHER           -> File(FALSE, 0, 0, 0)]

SupportedExtensions == {".pdf", ".txt", ".md", ".docx"}

\* resume_loader: what it raises ("" when it returns) and the text it loads
resume_loader(p, d) ==
    IF ~d[p].exists
    THEN [raised |-> "FileNotFoundError", chunks |-> 0]
    ELSE IF Lower(Extension(p)) \notin SupportedExtensions
         THEN [raised |-> "ValueError", chunks |-> 0]
         ELSE [raised |-> "", chunks |-> d[p].chunks]

Doc(p, d, i) == [source |-> p, mtime |-> d[p].mtime, chunk |-> i]

\* split_resume_into_sections: the contact document and the section chunks
split_resume_into_sections(p, d, n) == [i \in 1..n |-> Doc(p, d, i)]

\* The dictionary process_resume_from_file returns: error is "" when the key is
\* absent; raised names the exception that left the function, "" when it returned.
ResumeResult(error, documents, vectorstore, file_path, raised) ==
    [error |-> error, documents |-> documents, vectorstore |-> vectorstore,
     file_path |-> file_path, raised |-> raised]

\* process_resume_from_file without its except clause
process_resume_from_file_uncaught(p, d, faiss) ==
    LET loaded == resume_loader(p, d)
    IN  IF loaded.raised # ""
        THEN ResumeResult("", <<>>, FALSE, "", loaded.raised)
        ELSE IF loaded.chunks = 0
             THEN ResumeResult("", <<>>, FALSE, "", "")
             ELSE ResumeResult("", split_resume_into_sections(p, d, loaded.chunks),
                               faiss, p, "")

\* process_resume_from_file; faiss tells whether FAISS.afrom_documents succeeds
process_resume_from_file(p, d, faiss) ==
    LET loaded == resume_loader(p, d)
    IN  IF loaded.raised # ""
        THEN ResumeResult(loaded.raised, <<>>, FALSE, "", "")    \* except Exception
        ELSE IF loaded.chunks = 0
             THEN ResumeResult("", <<>>, FALSE, "", "")          \* not full_text.strip()
             ELSE ResumeResult("", split_resume_into_sections(p, d, loaded.chunks),
                               faiss, p, "")

\* the resumes that carry GitHub links
HasGithubLinks(p, d) == p = "Ann.pdf" /\ resume_loader(p, d).chunks > 0

\* process_resume_with_github_analysis: an error result is returned as it is,
\* otherwise the GitHub links of the resume are analysed and the analysis is added
\* to the resume result; links tells whether that analysis returns, and when it
\* raises the function returns {'error': str(e)} alone
process_resume_with_github_analysis(p, d, faiss, links) ==
    LET resume_result == process_resume_from_file(p, d, faiss)
    IN  IF resume_result.error # "" THEN resume_result
        ELSE IF HasGithubLinks(p, d) /\ ~links
             THEN ResumeResult("github", <<>>, FALSE, "", "")
             ELSE resume_result

(***************************************************************************)
(* ResumeState.  An Optional field is None or Some(value); resume_file,    *)
(* user_query and session_id are "" while the key is absent.               *)
(***************************************************************************)
EmptyState ==
    [resume_file |-> "", user_query |-> "", username |-> None, resume_data |-> None,
     github_analysis |-> None, linkedin_analysis |-> None, vectorstore_path |-> None,
     bm25_texts |-> None, documents |-> None, retrieved_docs |-> None,
     final_answer |-> None, conversation_history |-> <<>>, session_id |-> ""]

Answer(kind, query) == [kind |-> kind, query |-> query]
Turn(user, assistant, timestamp) ==
    [user |-> user, assistant |-> assistant, timestamp |-> timestamp]

\* Python truthiness of an Optional list
Truthy(o) == IsSet(o) /\ Val(o) # <<>>

Take(s, n) == SubSeq(s, 1, IF Len(s) < n THEN Len(s) ELSE n)
Reverse(s) == [i \in 1..Len(s) |-> s[Len(s) + 1 - i]]
Last(s) == s[Len(s)]

\* the order in which a retriever ranks the items for a query
Ranked(items, q) == IF q = "q1" THEN items ELSE Reverse(items)

BM25_K == 5
BM25_TOP == 3
VECTOR_K == 3

\* BM25Retriever.from_texts(texts), k = 5, invoke(query)
bm25_invoke(texts, q) == Take(Ranked(texts, q), BM25_K)

\* amax_marginal_relevance_search(query, k=3, fetch_k=10) / asimilarity_search(query, k=3)
vector_search(items, q) == Take(Ranked(items, q), VECTOR_K)

\* load_existing_vectorstore: the items of the user's collection, None when the
\* directory is missing, the collection is empty or opening it fails
load_existing_vectorstore(u, ch, opens) ==
    IF u \notin DOMAIN ch THEN None
    ELSE IF ~opens THEN None
    ELSE IF Len(ch[u]) > 0 THEN Some(ch[u]) ELSE None

\* What the external services do during one retrieve_and_answer_node: whether the
\* BM25 retriever, the opening of the collection, the diversity-aware search, the
\* plain similarity search and the language model succeed.  A call that is not
\* made cannot fail.
Envs(st, ch) ==
    LET lexical == Truthy(st.bm25_texts)
        username == IF IsSet(st.username) THEN Val(st.username) ELSE DefaultUser
        stored == IsSet(st.vectorstore_path) /\ username \in DOMAIN ch
        searched == stored /\ Len(ch[username]) > 0
    IN  {env \in [bm25 : BOOLEAN, opens : BOOLEAN, mmr : BOOLEAN, sim : BOOLEAN,
                  llm : BOOLEAN] :
            /\ ~lexical => env.bm25
            /\ ~stored => env.opens
            /\ ~(searched /\ env.opens) => env.mmr
            /\ env.mmr => env.sim}

\* the vector part extending retrieved_docs in the fallback after the
\* diversity-aware search had already contributed its hits
vector_hits_twice(st, ch, env) ==
    IF ~IsSet(st.vectorstore_path) THEN <<>>
    ELSE LET username == IF IsSet(st.username) THEN Val(st.username) ELSE DefaultUser
             vectorstore == load_existing_vectorstore(username, ch, env.opens)
         IN  IF ~IsSet(vectorstore) THEN <<>>
             ELSE IF env.mmr THEN vector_search(Val(vectorstore), st.user_query)
             ELSE IF env.sim THEN vector_search(Val(vectorstore), st.user_query)
                                  \o vector_search(Val(vectorstore), st.user_query)
             ELSE <<>>

\* the vector part of retrieve_and_answer_node (agent.py:289-320)
vector_hits(st, ch, env) ==
    IF ~IsSet(st.vectorstore_path) THEN <<>>
    ELSE LET username == IF IsSet(st.username) THEN Val(st.username) ELSE DefaultUser
             vectorstore == load_existing_vectorstore(username, ch, env.opens)
         IN  IF ~IsSet(vectorstore) THEN <<>>
             ELSE IF env.mmr THEN vector_search(Val(vectorstore), st.user_query)
             ELSE IF env.sim THEN vector_search(Val(vectorstore), st.user_query)
             ELSE <<>>

\* the lexical part of retrieve_and_answer_node (agent.py:277-286)
bm25_hits(st, env) ==
    IF Truthy(st.bm25_texts) /\ env.bm25
    THEN Take(bm25_invoke(Val(st.bm25_texts), st.user_query), BM25_TOP)
    ELSE <<>>

\* retrieve_and_answer_node: the state it returns
retrieve_and_answer_node(st, ch, t, env) ==
    LET retrieved_docs == bm25_hits(st, env) \o vector_hits(st, ch, env)
        st1 == [st EXCEPT !.retrieved_docs = Some(retrieved_docs)]
        response == Answer("answer", st.user_query)
    IN  IF env.llm
        THEN [st1 EXCEPT !.final_answer = Some(response),
                         !.conversation_history =
                             Append(@, Turn(st.user_query, response, t))]
        ELSE [st1 EXCEPT !.final_answer = Some(Answer("query_error", ""))]

(***************************************************************************)
(* The workflow graph and its checkpointer.                                *)
(***************************************************************************)
\* should_continue (defined by the module, attached to no edge)
should_continue(st) == IF IsSet(st.final_answer) THEN "end" ELSE "continue"

\* the edges with should_continue attached behind process_resume
next_node_conditional(node, st) ==
    CASE node = "START"               -> "process_resume"
      [] node = "process_resume"      ->
             IF should_continue(st) = "end" THEN "END" ELSE "analyze_github"
      [] node = "analyze_github"      -> "analyze_linkedin"
      [] node = "analyze_linkedin"    -> "retrieve_and_answer"
      [] node = "retrieve_and_answer" -> "END"

\* workflow.add_edge(...): the node that follows `node`
next_node(node, st) ==
    CASE node = "START"               -> "process_resume"
      [] node = "process_resume"      -> "analyze_github"
      [] node = "analyze_github"      -> "analyze_linkedin"
      [] node = "analyze_linkedin"    -> "retrieve_and_answer"
      [] node = "retrieve_and_answer" -> "END"

Stages == <<"process_resume", "analyze_github", "analyze_linkedin", "retrieve_and_answer">>

\* position of a session after `node` returned st ("idle": the run has ended)
After(node, st) == IF next_node(node, st) = "END" THEN "idle" ELSE next_node(node, st)

Cur(s) == Head(snaps[s])

SamePair(a, b) == a.resume_file = b.resume_file /\ a.username = b.username

\* The thread's snapshots, newest first.  get_state_history is searched for the
\* newest snapshot of a resume file or username, so of the snapshots that agree
\* on both only the newest is kept.
Push(h, v) == <<v>> \o SelectSeq(h, LAMBDA x : ~SamePair(x, v))

\* a node returned: its state becomes the thread's newest snapshot
Checkpoint(h, v) == Push(Tail(h), v)

\* the thread's channels after the keys of `inp` are written over them
WriteInput(base, inp) ==
    [resume_file |-> IF inp.resume_file # "" THEN inp.resume_file ELSE base.resume_file,
     user_query |-> IF inp.user_query # "" THEN inp.user_query ELSE base.user_query,
     session_id |-> IF inp.session_id # "" THEN inp.session_id ELSE base.session_id,
     username |-> IF IsSet(inp.username) THEN inp.username ELSE base.username,
     resume_data |-> IF IsSet(inp.resume_data) THEN inp.resume_data ELSE base.resume_data,
     github_analysis |->
         IF IsSet(inp.github_analysis) THEN inp.github_analysis ELSE base.github_analysis,
     linkedin_analysis |->
         IF IsSet(inp.linkedin_analysis) THEN inp.linkedin_analysis ELSE base.linkedin_analysis,
     vectorstore_path |->
         IF IsSet(inp.vectorstore_path) THEN inp.vectorstore_path ELSE base.vectorstore_path,
     bm25_texts |-> IF IsSet(inp.bm25_texts) THEN inp.bm25_texts ELSE base.bm25_texts,
     documents |-> IF IsSet(inp.documents) THEN inp.documents ELSE base.documents,
     retrieved_docs |->
         IF IsSet(inp.retrieved_docs) THEN inp.retrieved_docs ELSE base.retrieved_docs,
     final_answer |-> IF IsSet(inp.final_answer) THEN inp.final_answer ELSE base.final_answer,
     conversation_history |-> inp.conversation_history]

\* process_resume_and_query, lines 435-446: the newest snapshot of the thread
\* whose resume_file or username is the one asked for
Matches(h, p, u) == SelectSeq(h, LAMBDA x : x.resume_file = p \/ x.username = Some(u))

\* process_resume_and_query, lines 448-467: the input handed to the workflow
input_state(h, p, q, s, u) ==
    LET found == Matches(h, p, u)
    IN  IF found # <<>> /\ IsSet(Head(found).vectorstore_path)
        THEN Head(found)                       \* {'user_query': query, **existing_state}
        ELSE [EmptyState EXCEPT !.resume_file = p, !.user_query = q,
                                !.username = Some(u), !.session_id = s]

(***************************************************************************)
(* The workflow nodes.                                                     *)
(***************************************************************************)
ResumeData(rr) == [file_path |-> rr.file_path, chunks |-> Len(rr.documents)]

\* os.makedirs(persist_directory, exist_ok=True)
makedirs(ch, u) == IF u \in DOMAIN ch THEN ch ELSE ch @@ (u :> <<>>)

\* create_persistent_vectorstore without the test of the item count
create_persistent_vectorstore_always_adds(documents, u, ch, opens) ==
    IF documents = <<>> THEN "none"
    ELSE IF ~opens THEN "none"
    ELSE "add"

\* create_persistent_vectorstore up to its suspension point: "none" (nothing to
\* store, or the collection cannot be opened), "add" (the collection is empty:
\* aadd_documents is awaited) or "loaded" (the collection is reused)
create_persistent_vectorstore(documents, u, ch, opens) ==
    IF documents = <<>> THEN "none"
    ELSE IF ~opens THEN "none"
    ELSE IF Len(makedirs(ch, u)[u]) = 0 THEN "add"
    ELSE "loaded"

\* process_resume_node, lines 186-206: the state once the resume result is in
resume_processed(st, rr) ==
    IF rr.error # ""
    THEN [st EXCEPT !.final_answer = Some(Answer("resume_error", rr.error))]
    ELSE [st EXCEPT !.resume_data = Some(ResumeData(rr)),
                    !.documents = Some(rr.documents)]

\* process_resume_node treating a missing vector store as a failure of the stage
vectorstore_required(st, documents, vectorstore) ==
    IF vectorstore
    THEN [st EXCEPT !.vectorstore_path = st.username, !.bm25_texts = Some(documents)]
    ELSE [st EXCEPT !.final_answer = Some(Answer("resume_error", "vectorstore"))]

\* process_resume_node, lines 215-221: the state once the vector store call is back
vectorstore_created(st, documents, vectorstore) ==
    [st EXCEPT !.vectorstore_path = IF vectorstore THEN st.username ELSE @,
               !.bm25_texts = Some(documents)]

\* what analyze_github_from_resume can do: it is called only with resume_data
GithubOutcomes(st) == IF IsSet(st.resume_data) THEN {"ok", "error", "raise"} ELSE {"ok"}

\* analyze_github_node reporting an exception as the answer of the run
analyze_github_node_reports(st, out) ==
    IF ~IsSet(st.resume_data) THEN st
    ELSE IF out = "raise"
         THEN [st EXCEPT !.final_answer = Some(Answer("github_error", out))]
         ELSE [st EXCEPT !.github_analysis =
                   Some([error |-> IF out = "ok" THEN "" ELSE out])]

\* analyze_github_node; out is what analyze_github_from_resume does
analyze_github_node(st, out) ==
    IF ~IsSet(st.resume_data) THEN st
    ELSE [st EXCEPT !.github_analysis =
              Some([error |-> IF out = "ok" THEN "" ELSE out])]

LinkedinResult(error, linkedin_found) == [error |-> error, linkedin_found |-> linkedin_found]

\* the resumes that carry a LinkedIn link
HasLinkedin(p, d) == p = "Ann.pdf" /\ resume_loader(p, d).raised = ""

\* what linkedin_profile_summary can do for a resume
LinkedinOutcomes(p, d) == IF HasLinkedin(p, d) THEN {"denied", "found", "raise"} ELSE {"none"}

\* analyze_linkedin_node; out is what linkedin_profile_summary does
analyze_linkedin_node(st, out) ==
    [st EXCEPT !.linkedin_analysis =
         Some(IF out = "found" THEN LinkedinResult("", TRUE)
              ELSE LinkedinResult(out, FALSE))]

(***************************************************************************)
(* Actions.                                                                *)
(***************************************************************************)
Idle == \A s \in Sessions : pc[s] = "idle"

\* API calls and failures of external services are explored up to MaxEvents of them
Cost(ok) == IF ok THEN 0 ELSE 1
EnvCost(env) == Cost(env.bm25) + Cost(env.opens) + Cost(env.mmr) + Cost(env.sim) + Cost(env.llm)
Fail(n) == events + n <= MaxEvents /\ events' = events + n

\* ResumeAnalysisAgent.process_resume_and_query(p, q, s) up to the first node
StartRun(s, p, q) ==
    /\ pc[s] = "idle"
    /\ Fail(1)
    /\ LET u == extract_username_from_resume(p, disk, now)
           inp == input_state(snaps[s], p, q, s, u)
           base == IF snaps[s] = <<>> THEN EmptyState ELSE Cur(s)
       IN  snaps' = [snaps EXCEPT ![s] = Push(@, WriteInput(base, inp))]
    /\ pc' = [pc EXCEPT ![s] = After("START", EmptyState)]
    /\ trace' = [trace EXCEPT ![s] = <<>>]
    /\ now' = now + 1
    /\ UNCHANGED <<pending, result, lastResume, turns, chroma, disk, upath, uname, github, ghlinks, linkedin, pdf, sections, backend>>

\* process_resume_node, to its return or to the await of aadd_documents
ProcessResume(s) ==
    /\ pc[s] = "process_resume"
    /\ \E faiss \in BOOLEAN, links \in BOOLEAN, opens \in BOOLEAN :
         (resume_loader(Cur(s).resume_file, disk).chunks = 0 => faiss /\ opens) /\
         (~HasGithubLinks(Cur(s).resume_file, disk) => links) /\
         (~links => opens) /\
         Fail(Cost(faiss) + Cost(links) + Cost(opens)) /\
         LET st0 == Cur(s)
             st == IF IsSet(st0.username) THEN st0
                   ELSE [st0 EXCEPT !.username =
                            Some(extract_username_from_resume(st0.resume_file, disk, now))]
             rr == process_resume_with_github_analysis(st.resume_file, disk, faiss, links)
             st1 == resume_processed(st, rr)
             u == Val(st.username)
             how == create_persistent_vectorstore(rr.documents, u, chroma, opens)
         IN  /\ lastResume' = [lastResume EXCEPT ![s] =
                     Some([path |-> st.resume_file, result |-> rr])]
             /\ IF rr.error # "" \/ rr.documents = <<>>
                THEN /\ snaps' = [snaps EXCEPT ![s] = Checkpoint(@, st1)]
                     /\ pc' = [pc EXCEPT ![s] = After("process_resume", st1)]
                     /\ trace' = [trace EXCEPT ![s] = Append(@, "process_resume")]
                     /\ UNCHANGED <<pending, chroma>>
                ELSE IF how = "add"
                THEN /\ pending' = [pending EXCEPT ![s] = Some(st1)]
                     /\ chroma' = makedirs(chroma, u)
                     /\ pc' = [pc EXCEPT ![s] = "add_documents"]
                     /\ UNCHANGED <<snaps, trace>>
                ELSE LET st2 == vectorstore_created(st1, rr.documents, how = "loaded")
                     IN  /\ snaps' = [snaps EXCEPT ![s] = Checkpoint(@, st2)]
                         /\ pc' = [pc EXCEPT ![s] = After("process_resume", st2)]
                         /\ trace' = [trace EXCEPT ![s] = Append(@, "process_resume")]
                         /\ chroma' = makedirs(chroma, u)
                         /\ UNCHANGED pending
    /\ UNCHANGED <<result, turns, disk, now, upath, uname, github, ghlinks, linkedin, pdf, sections, backend>>

\* process_resume_node resumed: aadd_documents returns or raises, then lines 215-224
AddDocuments(s) ==
    /\ pc[s] = "add_documents"
    /\ \E embeds \in BOOLEAN :
         Fail(Cost(embeds)) /\
         LET st1 == Val(pending[s])
             documents == Val(st1.documents)
             u == Val(st1.username)
             st2 == vectorstore_created(st1, documents, embeds)
         IN  /\ chroma' = IF embeds THEN [chroma EXCEPT ![u] = @ \o documents] ELSE chroma
             /\ snaps' = [snaps EXCEPT ![s] = Checkpoint(@, st2)]
             /\ pc' = [pc EXCEPT ![s] = After("process_resume", st2)]
    /\ trace' = [trace EXCEPT ![s] = Append(@, "process_resume")]
    /\ pending' = [pending EXCEPT ![s] = None]
    /\ UNCHANGED <<result, lastResume, turns, disk, now, upath, uname, github, ghlinks, linkedin, pdf, sections, backend>>

AnalyzeGithub(s) ==
    /\ pc[s] = "analyze_github"
    /\ \E out \in GithubOutcomes(Cur(s)) :
         Fail(Cost(out = "ok")) /\
         LET st == analyze_github_node(Cur(s), out)
         IN  /\ snaps' = [snaps EXCEPT ![s] = Checkpoint(@, st)]
             /\ pc' = [pc EXCEPT ![s] = After("analyze_github", st)]
    /\ trace' = [trace EXCEPT ![s] = Append(@, "analyze_github")]
    /\ UNCHANGED <<pending, result, lastResume, turns, chroma, disk, now, upath, uname, github, ghlinks, linkedin, pdf, sections, backend>>

AnalyzeLinkedin(s) ==
    /\ pc[s] = "analyze_linkedin"
    /\ \E out \in LinkedinOutcomes(Cur(s).resume_file, disk) :
         Fail(Cost(out # "raise")) /\
         LET st == analyze_linkedin_node(Cur(s), out)
         IN  /\ snaps' = [snaps EXCEPT ![s] = Checkpoint(@, st)]
             /\ pc' = [pc EXCEPT ![s] = After("analyze_linkedin", st)]
    /\ trace' = [trace EXCEPT ![s] = Append(@, "analyze_linkedin")]
    /\ UNCHANGED <<pending, result, lastResume, turns, chroma, disk, now, upath, uname, github, ghlinks, linkedin, pdf, sections, backend>>

\* retrieve_and_answer_node as the last node; ainvoke returns the final state
RetrieveAndAnswer(s) ==
    /\ pc[s] = "retrieve_and_answer"
    /\ \E env \in Envs(Cur(s), chroma) :
         Fail(EnvCost(env)) /\
         LET st == retrieve_and_answer_node(Cur(s), chroma, now, env)
         IN  /\ snaps' = [snaps EXCEPT ![s] = Checkpoint(@, st)]
             /\ pc' = [pc EXCEPT ![s] = After("retrieve_and_answer", st)]
             /\ result' = [result EXCEPT ![s] = Some(st)]
             /\ turns' = [turns EXCEPT ![s] =
                     IF env.llm THEN Append(@, Last(st.conversation_history)) ELSE @]
    /\ trace' = [trace EXCEPT ![s] = Append(@, "retrieve_and_answer")]
    /\ UNCHANGED <<pending, lastResume, chroma, disk, now, upath, uname, github, ghlinks, linkedin, pdf, sections, backend>>

\* the username argument continue_conversation is called with
UserParams == {None, Some(UserName("name", <<"a", "n", "n">>, "", 0, 0, 0))}

\* continue_conversation starting from an empty state that has only the query
updated_state_query_only(st, q, uparam, ch) ==
    [EmptyState EXCEPT !.user_query = q, !.username = st.username,
                       !.vectorstore_path = st.vectorstore_path,
                       !.conversation_history = st.conversation_history,
                       !.session_id = st.session_id, !.resume_file = st.resume_file]

\* continue_conversation, lines 481-495: the state handed to retrieve_and_answer_node
updated_state(st, q, uparam, ch) ==
    LET st0 == [st EXCEPT !.user_query = q]
        st1 == IF IsSet(uparam) /\ ~IsSet(st0.username)
               THEN [st0 EXCEPT !.username = uparam] ELSE st0
    IN  IF ~IsSet(st1.vectorstore_path) /\ IsSet(st1.username)
           /\ Val(st1.username) \in DOMAIN ch
        THEN [st1 EXCEPT !.vectorstore_path = st1.username] ELSE st1

\* continue_conversation without the test of the stored state
continue_conversation_unchecked(h, q, uparam, ch, t, env) ==
    retrieve_and_answer_node(
        updated_state(IF h = <<>> THEN EmptyState ELSE Head(h), q, uparam, ch), ch, t, env)

\* ResumeAnalysisAgent.continue_conversation: the dictionary it returns
continue_conversation(h, q, uparam, ch, t, env) ==
    IF h = <<>>
    THEN [EmptyState EXCEPT !.final_answer = Some(Answer("no_session", ""))]
    ELSE retrieve_and_answer_node(updated_state(Head(h), q, uparam, ch), ch, t, env)

\* the failures that can occur during one continue_conversation
ContinueEnvs(h, q, uparam, ch) ==
    IF h = <<>> THEN Envs(EmptyState, ch) \cap {env \in Envs(EmptyState, ch) : env.llm}
    ELSE Envs(updated_state(Head(h), q, uparam, ch), ch)

Continue(s, q, uparam) ==
    /\ pc[s] = "idle"
    /\ \E env \in ContinueEnvs(snaps[s], q, uparam, chroma) :
         Fail(1 + EnvCost(env)) /\
         LET r == continue_conversation(snaps[s], q, uparam, chroma, now, env)
         IN  /\ result' = [result EXCEPT ![s] = Some(r)]
             /\ turns' = [turns EXCEPT ![s] =
                     IF snaps[s] # <<>> /\ env.llm
                     THEN Append(@, Last(r.conversation_history)) ELSE @]
    /\ now' = now + 1
    /\ UNCHANGED <<snaps, pc, trace, pending, lastResume, chroma, disk, upath, uname, github, ghlinks, linkedin, pdf, sections, backend>>

\* no resume workflow has been run
AgentInit ==
    /\ snaps = [s \in Sessions |-> <<>>]
    /\ pc = [s \in Sessions |-> "idle"]
    /\ trace = [s \in Sessions |-> <<>>]
    /\ pending = [s \in Sessions |-> None]
    /\ result = [s \in Sessions |-> None]
    /\ lastResume = [s \in Sessions |-> None]
    /\ turns = [s \in Sessions |-> <<>>]
    /\ chroma = <<>>
    /\ events = 0
    /\ now = 0

\* no call of the GitHub and LinkedIn parsers is under way
ParsersInit ==
    /\ github = <<>>
    /\ ghlinks = <<>>
    /\ linkedin = <<>>
    /\ pdf = <<>>
    /\ sections = <<>>
    /\ backend = <<>>

Init ==
    /\ AgentInit
    /\ ParsersInit
    /\ disk = InitialDisk
    /\ upath = ""
    /\ uname = <<>>

\* Session ids are interchangeable: the second one comes into use after the first.
InOrder(s) == s = "s2" => snaps["s1"] # <<>>

\* Calls are made one at a time: a call is started when no workflow is running.
ProcessResumeAndQuery(s) ==
    \E p \in Paths, q \in Queries : Idle /\ InOrder(s) /\ StartRun(s, p, q)

ContinueConversation(s) ==
    \E q \in Queries, uparam \in UserParams : Idle /\ Continue(s, q, uparam)

Next ==
    \E s \in Sessions :
        \/ ProcessResumeAndQuery(s)
        \/ ProcessResume(s)
        \/ AddDocuments(s)
        \/ AnalyzeGithub(s)
        \/ AnalyzeLinkedin(s)
        \/ RetrieveAndAnswer(s)
        \/ ContinueConversation(s)

Spec == Init /\ [][Next]_vars

(***************************************************************************)
(* extract_username_from_resume on its own: one path, a file behind it     *)
(* that does not change, and calls made as the clock advances.             *)
(***************************************************************************)
InitUser ==
    /\ AgentInit
    /\ ParsersInit
    /\ upath \in StudyPaths
    /\ \E f \in {File(FALSE, 0, 0, 0), File(TRUE, 1, 7, 1), File(TRUE, 2, 7, 1)} :
           disk = [InitialDisk EXCEPT ![upath] = f]
    /\ uname = <<>>

Tick ==
    /\ now < MaxNow
    /\ now' = now + 1
    /\ UNCHANGED <<snaps, pc, trace, pending, result, lastResume, turns, chroma, disk,
                   events, upath, uname, github, ghlinks, linkedin, pdf, sections, backend>>

CallExtract ==
    /\ Len(uname) < MaxExtracts
    /\ uname' = Append(uname, [at |-> now,
                               id |-> extract_username_from_resume(upath, disk, now)])
    /\ UNCHANGED <<snaps, pc, trace, pending, result, lastResume, turns, chroma, disk,
                   now, events, upath, github, ghlinks, linkedin, pdf, sections, backend>>

NextUser == Tick \/ CallExtract

SpecUser == InitUser /\ [][NextUser]_vars

(***************************************************************************)
(* Properties.                                                             *)
(***************************************************************************)
IsPrefix(a, b) == Len(a) <= Len(b) /\ SubSeq(b, 1, Len(a)) = a
Range(f) == {f[i] : i \in DOMAIN f}
Running(s) == pc[s] # "idle"
Finished(s) == pc[s] = "idle" /\ trace[s] # <<>>
UserOf(s) == Val(Cur(s).username)
StoreCount(u) == IF u \in DOMAIN chroma THEN Len(chroma[u]) ELSE 0

C2_ResumeErrorIsTerminal ==
    \A s \in Sessions :
        (Finished(s) /\ Val(lastResume[s]).result.error # "")
            => Cur(s).final_answer =
                   Some(Answer("resume_error", Val(lastResume[s]).result.error))

\* C3: the conversation history of a session is append-only: the history the
\* next call on the session reads holds every turn the earlier calls produced,
\* in order.
C3_HistoryKeepsEveryTurn ==
    \A s \in Sessions :
        (pc[s] = "idle" /\ snaps[s] # <<>>) => Cur(s).conversation_history = turns[s]

\* the documents one build stores for a resume
BuildOf(p) == split_resume_into_sections(p, disk, disk[p].chunks)

\* C4: create_persistent_vectorstore adds documents to a user's collection only
\* while its item count is zero, so calls made one after another build a
\* collection at most once: a collection is empty or holds exactly the documents
\* of one build, however many times it was created or loaded afterwards.
C4_BuiltOnce ==
    \A u \in DOMAIN chroma :
        chroma[u] = <<>> \/ \E p \in Paths : disk[p].chunks > 0 /\ chroma[u] = BuildOf(p)

\* C4 witness: two sessions have each completed process_resume for the same
\* username with a vector store, and the collection holds one build
C4_Witness ==
    \E u \in DOMAIN chroma :
        /\ chroma[u] # <<>>
        /\ \A s \in Sessions :
              /\ snaps[s] # <<>>
              /\ Len(trace[s]) >= 1
              /\ Cur(s).username = Some(u)
              /\ Cur(s).vectorstore_path = Some(u)

\* a name extract_username_from_resume keeps as the username
Distinctive(p) ==
    /\ Len(BaseName(p)) >= 3
    /\ LowerSeq(BaseName(p)) \notin GenericNames

\* C5 as claimed: for every resume path, existing or not, distinctive or generic,
\* two calls of extract_username_from_resume made while the file is unchanged
\* return the same identifier.
C5_StableForEveryPath ==
    \A i, j \in DOMAIN uname : uname[i].id = uname[j].id

\* C5 as amended: the identifier is stable when the file name is distinctive or
\* the file exists; for a generic or short name whose file is missing the
\* identifier is the time of the call, equal only for calls in the same second.
C5_StableWhenNamedOrPresent ==
    \A i, j \in DOMAIN uname :
        IF Distinctive(upath) \/ disk[upath].exists
        THEN uname[i].id = uname[j].id
        ELSE (uname[i].id = uname[j].id) <=> (uname[i].at = uname[j].at)

\* C5 witness: a generic name on an existing file, asked at two different times
C5_Witness ==
    /\ upath = "cv.pdf"
    /\ disk[upath].exists
    /\ Len(uname) = 2
    /\ uname[1].at # uname[2].at

\* the item count of a user's collection after the step
StoreCountNext(u) == IF u \in DOMAIN chroma' THEN Len(chroma'[u]) ELSE 0

\* the newest snapshot of a session after the step
CurNext(s) == Head(snaps'[s])

\* the process_resume stage of session s returns in this step
ResumeStageReturns(s) ==
    /\ pc[s] \in {"process_resume", "add_documents"}
    /\ trace'[s] = <<"process_resume">>

\* the retrieve_and_answer stage of session s returns in this step
RetrieveStageReturns(s) == pc[s] = "retrieve_and_answer" /\ pc'[s] = "idle"

\* C6: when the resume has documents but the vector index could not be built
\* (the user's collection is still empty when process_resume returns), the stage
\* writes no error into final_answer, leaves vectorstore_path as it was on
\* entry, sets bm25_texts and hands over to analyze_github; and when
\* retrieve_and_answer finds no vector store for the user, retrieved_docs holds
\* the top lexical hits only and final_answer is set, to the model's answer
\* whenever no call of the stage failed.
C6_DegradesToLexical ==
    [][\A s \in Sessions :
        /\ (/\ ResumeStageReturns(s)
            /\ Val(lastResume'[s]).result.documents # <<>>
            /\ StoreCountNext(Val(CurNext(s).username)) = 0)
           => /\ CurNext(s).final_answer = Cur(s).final_answer
              /\ CurNext(s).vectorstore_path = Cur(s).vectorstore_path
              /\ CurNext(s).bm25_texts = Some(Val(lastResume'[s]).result.documents)
              /\ pc'[s] = "analyze_github"
        /\ (/\ RetrieveStageReturns(s)
            /\ (~IsSet(Cur(s).vectorstore_path) \/ StoreCount(UserOf(s)) = 0))
           => /\ IsSet(CurNext(s).retrieved_docs)
              /\ IsSet(CurNext(s).final_answer)
              /\ Val(CurNext(s).final_answer).kind \in {"answer", "query_error"}
              /\ LET lexical == IF Truthy(Cur(s).bm25_texts)
                                THEN Take(bm25_invoke(Val(Cur(s).bm25_texts),
                                                      Cur(s).user_query), BM25_TOP)
                                ELSE <<>>
                 IN  /\ Val(CurNext(s).retrieved_docs) \in {lexical, <<>>}
                     /\ events' = events =>
                          /\ Val(CurNext(s).retrieved_docs) = lexical
                          /\ CurNext(s).final_answer =
                                 Some(Answer("answer", Cur(s).user_query))
    ]_vars

\* C6 witness: a run has ended whose resume has documents, whose vector index
\* could not be built, and whose answer rests on the lexical hits
C6_Witness ==
    \E s \in Sessions :
        /\ Finished(s)
        /\ Val(lastResume[s]).result.documents # <<>>
        /\ ~IsSet(Cur(s).vectorstore_path)
        /\ StoreCount(UserOf(s)) = 0
        /\ Truthy(Cur(s).bm25_texts)
        /\ Cur(s).retrieved_docs =
               Some(Take(bm25_invoke(Val(Cur(s).bm25_texts), Cur(s).user_query), BM25_TOP))
        /\ Val(Cur(s).final_answer).kind = "answer"

\* the resume file process_resume last read in session s has only blank text
BlankResume(s) ==
    /\ IsSet(lastResume[s])
    /\ resume_loader(Val(lastResume[s]).path, disk).raised = ""
    /\ resume_loader(Val(lastResume[s]).path, disk).chunks = 0

\* C7: when the text extracted from the resume file is blank,
\* process_resume_from_file returns a result that carries an error, and
\* process_resume stores an error message in final_answer and sets no resume_data.
C7_BlankTextIsAnError ==
    \A s \in Sessions :
        (BlankResume(s) /\ trace[s] # <<>>) =>
            /\ Val(lastResume[s]).result.error # ""
            /\ IsSet(Cur(s).final_answer) /\ Val(Cur(s).final_answer).kind = "resume_error"

\* the resume path process_resume last read in session s is missing or has an
\* extension the loader does not support
Unloadable(p) == ~disk[p].exists \/ Lower(Extension(p)) \notin SupportedExtensions

\* C8: for a missing path or an unsupported extension resume_loader raises
\* FileNotFoundError, respectively ValueError, and process_resume_from_file
\* returns instead of raising: its result names the error, has no documents and
\* no vector index, and no documents are waiting to be stored.
C8_LoaderErrorsAreStructured ==
    \A s \in Sessions :
        (IsSet(lastResume[s]) /\ Unloadable(Val(lastResume[s]).path)) =>
            LET r == Val(lastResume[s])
            IN  /\ resume_loader(r.path, disk).raised =
                       IF disk[r.path].exists THEN "ValueError" ELSE "FileNotFoundError"
                /\ r.result.raised = ""
                /\ r.result.error = resume_loader(r.path, disk).raised
                /\ r.result.documents = <<>>
                /\ ~r.result.vectorstore
                /\ pc[s] # "add_documents" /\ pending[s] = None

\* C8 witness: one session read a missing path, another a file of an
\* unsupported extension
C8_Witness ==
    \E s, t \in Sessions :
        /\ IsSet(lastResume[s]) /\ IsSet(lastResume[t])
        /\ ~disk[Val(lastResume[s]).path].exists
        /\ Val(lastResume[s]).result.error = "FileNotFoundError"
        /\ disk[Val(lastResume[t]).path].exists
        /\ Val(lastResume[t]).result.error = "ValueError"

\* an enrichment stage of session s returns in this step
EnrichmentReturns(s) ==
    /\ pc[s] \in {"analyze_github", "analyze_linkedin"}
    /\ pc'[s] # pc[s]

\* C9: a failure inside analyze_github or analyze_linkedin stays inside the
\* stage: the stage returns, the next stage of the order is started,
\* final_answer is as it was on entry, and the failure is an error value in
\* github_analysis, respectively linkedin_analysis.
C9_EnrichmentFailuresAreContained ==
    [][\A s \in Sessions :
        EnrichmentReturns(s) =>
            /\ pc'[s] = IF pc[s] = "analyze_github" THEN "analyze_linkedin"
                        ELSE "retrieve_and_answer"
            /\ CurNext(s).final_answer = Cur(s).final_answer
            /\ events' # events =>
                  IF pc[s] = "analyze_github"
                  THEN /\ IsSet(CurNext(s).github_analysis)
                       /\ Val(CurNext(s).github_analysis).error \in {"error", "raise"}
                  ELSE /\ IsSet(CurNext(s).linkedin_analysis)
                       /\ Val(CurNext(s).linkedin_analysis).error = "raise"
    ]_vars

\* C9 witness: both enrichment stages failed in a run that has reached
\* retrieve_and_answer with no final_answer written
C9_Witness ==
    \E s \in Sessions :
        /\ pc[s] = "retrieve_and_answer"
        /\ ~IsSet(Cur(s).final_answer)
        /\ IsSet(Cur(s).github_analysis)
        /\ Val(Cur(s).github_analysis).error \in {"error", "raise"}
        /\ IsSet(Cur(s).linkedin_analysis)
        /\ Val(Cur(s).linkedin_analysis).error = "raise"

\* C10: an enrichment stage entered without resume_data returns the session
\* state with every field as it was on entry.
C10_PassThroughWithoutResumeData ==
    [][\A s \in Sessions :
        (EnrichmentReturns(s) /\ ~IsSet(Cur(s).resume_data)) => CurNext(s) = Cur(s)
    ]_vars

\* the lexical hits retrieve_and_answer_node takes for a state
LexicalHits(st) ==
    IF Truthy(st.bm25_texts)
    THEN Take(bm25_invoke(Val(st.bm25_texts), st.user_query), BM25_TOP)
    ELSE <<>>

\* the vector hits retrieve_and_answer_node can take for a state
VectorHits(st) ==
    LET username == IF IsSet(st.username) THEN Val(st.username) ELSE DefaultUser
    IN  IF IsSet(st.vectorstore_path) /\ StoreCount(username) > 0
        THEN vector_search(chroma[username], st.user_query)
        ELSE <<>>

\* C11: after retrieve_and_answer, retrieved_docs is the (at most 3) lexical hits
\* followed by the (at most 3) vector hits, duplicates kept and never more than
\* 6 documents; a part whose retrieval failed is missing as a whole, the vector
\* hits appear at most once also when the similarity fallback is used, and when
\* no call of the stage fails both parts are present.
C11_LexicalThenVector ==
    [][\A s \in Sessions :
        RetrieveStageReturns(s) =>
            LET docs == Val(CurNext(s).retrieved_docs)
                lexical == LexicalHits(Cur(s))
                vector == VectorHits(Cur(s))
            IN  /\ IsSet(CurNext(s).retrieved_docs)
                /\ Len(lexical) <= BM25_TOP /\ Len(vector) <= VECTOR_K
                /\ Len(docs) <= BM25_TOP + VECTOR_K
                /\ docs \in {lexical \o vector, lexical, vector, <<>>}
                /\ events' = events => docs = lexical \o vector
    ]_vars

\* C11 witness: a run ended with three lexical hits followed by three vector
\* hits, the first vector hit repeating the first lexical hit
C11_Witness ==
    \E s \in Sessions :
        /\ Finished(s)
        /\ IsSet(Cur(s).retrieved_docs)
        /\ Len(Val(Cur(s).retrieved_docs)) = BM25_TOP + VECTOR_K
        /\ Val(Cur(s).retrieved_docs)[1] = Val(Cur(s).retrieved_docs)[BM25_TOP + 1]

(***************************************************************************)
(* GitHubParser (agents/Github_Praser/github_agent.py).  One call of       *)
(* parse_github_user: the user lookup, the repository pages, the stats.    *)
(* The clock and the push timestamps count half days.                      *)
(***************************************************************************)
MaxShortPage == 2   \* longest repository page below a full page that is explored

PerDay == 2         \* clock units in a day (86400 seconds)
PER_PAGE == 100
HIGH_DAYS == 3
MEDIUM_DAYS == 14
LOW_DAYS == 45
BYTES_PER_KB == 1024

\* a repository object of the REST API; an Optional field is None or Some(value)
Repo(name, language, size, pushed_at) ==
    [name |-> name, language |-> language, size |-> size, pushed_at |-> pushed_at]

RepoCatalog ==
    <<Repo("a", Some("Python"), Some(100), Some(0)),
      Repo("b", Some("Python"), Some(300), Some(2)),
      Repo("c", Some("Go"), Some(300), None),
      Repo("d", None, Some(100), Some(3)),
      Repo("e", Some("Go"), None, Some(1))>>

\* a page of per_page repositories
FullPage == [i \in 1..PER_PAGE |-> RepoCatalog[(i % Len(RepoCatalog)) + 1]]

\* the pages of fewer than per_page repositories the server can answer with
ShortPages == UNION {[1..n -> Range(RepoCatalog)] : n \in 0..MaxShortPage}

\* an HTTP response: status 0 stands for a request that got no response
Response(status, message, is_list, items) ==
    [status |-> status, message |-> message, is_list |-> is_list, items |-> items]

\* GET /users/{username}
UserResponses ==
    {Response(200, "", FALSE, <<>>), Response(404, "Not Found", FALSE, <<>>),
     Response(403, "API rate limit exceeded", FALSE, <<>>), Response(0, "", FALSE, <<>>)}

\* GET /users/{username}/repos?per_page=100&page={page}
PageResponses ==
    {Response(200, "", TRUE, items) : items \in ShortPages \cup {FullPage}}
    \cup {Response(404, "Not Found", FALSE, <<>>),
          Response(403, "API rate limit exceeded", FALSE, <<>>), Response(0, "", FALSE, <<>>)}

\* the value _safe_get_json returns: the JSON body, or a dictionary with an error
Json(error, status_code, message, is_list, items) ==
    [error |-> error, status_code |-> status_code, message |-> message,
     is_list |-> is_list, items |-> items]

\* _safe_get_json: raise_for_status comes before resp.json()
safe_get_json(resp) ==
    IF resp.status = 0 THEN Json("network", 0, "", FALSE, <<>>)
    ELSE IF resp.status >= 400 THEN Json("http", resp.status, "", FALSE, <<>>)
    ELSE Json("", 0, resp.message, resp.is_list, resp.items)

\* math.ceil(max_repos / per_page)
Pages(max_repos) == (max_repos + PER_PAGE - 1) \div PER_PAGE

\* _fetch_all_repositories: does the loop go on after page `page` answered data
fetch_goes_on(data, repos, page, max_repos) ==
    /\ data.is_list
    /\ Len(data.items) >= PER_PAGE
    /\ Len(repos) < max_repos
    /\ page < Pages(max_repos)

\* _fetch_all_repositories: the normalized repository
NormalRepo(r) ==
    [name |-> r.name, language |-> r.language, size_kb |-> r.size, pushed_at |-> r.pushed_at]

\* _fetch_all_repositories, lines 168-192: trim to max_repos and normalize
normalized(repos, max_repos) ==
    [i \in 1..(IF Len(repos) < max_repos THEN Len(repos) ELSE max_repos) |->
        NormalRepo(repos[i])]

\* _compute_stats, line 204: r.get("language") or "Unknown"
Lang(r) == IF IsSet(r.language) THEN Val(r.language) ELSE "Unknown"

\* _compute_stats, line 205: r.get("size_kb") or 0
SizeKb(r) == IF IsSet(r.size_kb) THEN Val(r.size_kb) ELSE 0

\* the keys of language_bytes in the order the loop inserts them
language_order(repos) ==
    LET langs == {Lang(repos[i]) : i \in DOMAIN repos}
        first(l) == CHOOSE i \in DOMAIN repos :
                        Lang(repos[i]) = l /\ \A j \in 1..(i - 1) : Lang(repos[j]) # l
    IN  [k \in 1..Cardinality(langs) |->
            CHOOSE l \in langs : Cardinality({m \in langs : first(m) < first(l)}) = k - 1]

\* the language bytes counted with 1000 bytes to the KB
RECURSIVE bytes_of_decimal(_, _)
bytes_of_decimal(repos, lang) ==
    IF repos = <<>> THEN 0
    ELSE IF Len(repos) = 1
    THEN (IF Lang(repos[1]) = lang THEN SizeKb(repos[1]) * 1000 ELSE 0)
    ELSE bytes_of_decimal(SubSeq(repos, 1, Len(repos) \div 2), lang)
         + bytes_of_decimal(SubSeq(repos, Len(repos) \div 2 + 1, Len(repos)), lang)

\* _compute_stats, lines 203-206: the bytes added up for one language; the sum
\* over the list is taken by halves
RECURSIVE bytes_of(_, _)
bytes_of(repos, lang) ==
    IF repos = <<>> THEN 0
    ELSE IF Len(repos) = 1
    THEN (IF Lang(repos[1]) = lang THEN SizeKb(repos[1]) * BYTES_PER_KB ELSE 0)
    ELSE bytes_of(SubSeq(repos, 1, Len(repos) \div 2), lang)
         + bytes_of(SubSeq(repos, Len(repos) \div 2 + 1, Len(repos)), lang)

\* _compute_stats, lines 201-206
language_bytes(repos) == [lang \in Range(language_order(repos)) |-> bytes_of(repos, lang)]

\* sorted(language_bytes.items(), key=bytes, reverse=True): a stable sort, so of two
\* languages with equal bytes the one inserted first stays first
RECURSIVE sorted_by_bytes(_, _)
sorted_by_bytes(langs, bytes) ==
    IF langs = <<>> THEN <<>>
    ELSE LET front == sorted_by_bytes(SubSeq(langs, 1, Len(langs) - 1), bytes)
             x == Last(langs)
             before == SelectSeq(front, LAMBDA l : bytes[l] >= bytes[x])
             after == SelectSeq(front, LAMBDA l : bytes[l] < bytes[x])
         IN  before \o <<x>> \o after

\* round(n / d): to the nearest integer, a tie to the even one (n >= 0, d > 0)
RoundDiv(n, d) ==
    LET q == n \div d
        r == n % d
    IN  IF 2 * r < d THEN q
        ELSE IF 2 * r > d THEN q + 1
        ELSE IF q % 2 = 0 THEN q ELSE q + 1

\* _compute_stats, lines 208-217; percent is kept in hundredths of a percent.
\* Every byte count is a multiple of 1024, so the quotient b * 100 / total is
\* taken over the counts in KB.
top_languages(repos) ==
    LET bytes == language_bytes(repos)
        order == sorted_by_bytes(language_order(repos), bytes)
        RECURSIVE total(_)
        total(ls) == IF ls = <<>> THEN 0 ELSE bytes[Head(ls)] + total(Tail(ls))
        total_lang_bytes == IF total(order) = 0 THEN 1 ELSE total(order)
        total_kb == IF total(order) = 0 THEN 1 ELSE total_lang_bytes \div BYTES_PER_KB
    IN  [i \in 1..Len(order) |->
            [language |-> order[i],
             bytes |-> bytes[order[i]],
             percent |-> RoundDiv((bytes[order[i]] \div BYTES_PER_KB) * 10000, total_kb),
             repo_count |-> Len(SelectSeq(repos, LAMBDA r : Lang(r) = order[i]))]]

\* max(...) over the push timestamps
latest_push(push_times) ==
    CHOOSE t \in Range(push_times) : \A other \in Range(push_times) : t >= other

\* the activity thresholds taken inclusively
activity_of_inclusive(delta) ==
    IF delta <= HIGH_DAYS * PerDay THEN "high"
    ELSE IF delta <= MEDIUM_DAYS * PerDay THEN "medium"
    ELSE IF delta <= LOW_DAYS * PerDay THEN "low"
    ELSE "none"

\* the activity levels with medium reaching up to the last threshold
activity_of_wide_medium(delta) ==
    IF delta < HIGH_DAYS * PerDay THEN "high"
    ELSE IF delta < LOW_DAYS * PerDay THEN "medium"
    ELSE "none"

\* _compute_stats, lines 227-234: delta is now - latest in clock units
activity_of(delta) ==
    IF delta < HIGH_DAYS * PerDay THEN "high"
    ELSE IF delta < MEDIUM_DAYS * PerDay THEN "medium"
    ELSE IF delta < LOW_DAYS * PerDay THEN "low"
    ELSE "none"

\* _compute_stats, lines 219-234
activity_level(repos, t) ==
    LET pushed == SelectSeq(repos, LAMBDA r : IsSet(r.pushed_at))
        push_times == [i \in 1..Len(pushed) |-> Val(pushed[i].pushed_at)]
    IN  IF push_times = <<>> THEN "none" ELSE activity_of(t - latest_push(push_times))

\* recent_days, in hundredths of a day (None without a push timestamp)
recent_push_activity_days(repos, t) ==
    LET pushed == SelectSeq(repos, LAMBDA r : IsSet(r.pushed_at))
        push_times == [i \in 1..Len(pushed) |-> Val(pushed[i].pushed_at)]
    IN  IF push_times = <<>> THEN None
        ELSE Some(RoundDiv((t - latest_push(push_times)) * 100, PerDay))

\* _compute_stats: the fields of the stats that depend on the repositories
compute_stats(profile, repos, t) ==
    [language_bytes |-> language_bytes(repos),
     top_languages |-> top_languages(repos),
     recent_push_activity_days |-> recent_push_activity_days(repos, t),
     activity_level |-> activity_level(repos, t)]

\* a request parse_github_user issued: the endpoint, the page and the status answered
Request(endpoint, page, status) == [endpoint |-> endpoint, page |-> page, status |-> status]

\* the "meta" of the result; error is "" and error_count None when the key is absent
Meta(username, error, error_count) ==
    [username |-> username, error |-> error, error_count |-> error_count]

\* the dictionary parse_github_user returns; an empty profile or stats is None
ParseResult(profile, repositories, stats, meta) ==
    [profile |-> profile, repositories |-> repositories, stats |-> stats, meta |-> meta]

MaxReposChoices == {1, 150, 200}
Nows == {4, 5, 6, 27, 28, 40, 89, 90, 100}

otherThanGithub ==
    <<snaps, pc, trace, pending, result, lastResume, turns, chroma, disk, now, events,
      upath, uname, ghlinks, linkedin, pdf, sections, backend>>

\* parse_github_user, lines 85-102: the user lookup
LookupUser ==
    /\ github # <<>>
    /\ github.pc = "lookup"
    /\ \E resp \in UserResponses :
         LET profile == safe_get_json(resp)
             asked == Append(github.requests, Request("user", 0, resp.status))
         IN  github' =
               IF profile.message = "Not Found"
               THEN [github EXCEPT
                       !.pc = "done", !.requests = asked,
                       !.result = Some(ParseResult(None, <<>>, None,
                                     Meta(github.username, "User not found", None)))]
               ELSE [github EXCEPT
                       !.pc = IF Pages(github.max_repos) >= 1 THEN "repos" ELSE "stats",
                       !.requests = asked, !.profile = Some(profile)]
    /\ UNCHANGED otherThanGithub

\* _fetch_all_repositories, lines 156-166: one turn of the page loop
FetchPage ==
    /\ github # <<>>
    /\ github.pc = "repos"
    /\ \E resp \in PageResponses :
         LET data == safe_get_json(resp)
             repos == IF data.is_list THEN github.repos \o data.items ELSE github.repos
             on == fetch_goes_on(data, repos, github.page, github.max_repos)
         IN  github' = [github EXCEPT
                          !.requests = Append(@, Request("repos", github.page, resp.status)),
                          !.repos = repos,
                          !.page = IF on THEN @ + 1 ELSE @,
                          !.pc = IF on THEN "repos" ELSE "stats"]
    /\ UNCHANGED otherThanGithub

\* parse_github_user, lines 104-129: the stats and the result
ComputeStats ==
    /\ github # <<>>
    /\ github.pc = "stats"
    /\ LET repos == normalized(github.repos, github.max_repos)
           stats == compute_stats(Val(github.profile), repos, now)
       IN  github' = [github EXCEPT
                        !.pc = "done",
                        !.result = Some(ParseResult(github.profile, repos, Some(stats),
                                      Meta(github.username, "", Some(github.error_count))))]
    /\ UNCHANGED otherThanGithub

\* parse_github_user(username, max_repos) is called at some time
InitGithub ==
    /\ snaps = [s \in Sessions |-> <<>>]
    /\ pc = [s \in Sessions |-> "idle"]
    /\ trace = [s \in Sessions |-> <<>>]
    /\ pending = [s \in Sessions |-> None]
    /\ result = [s \in Sessions |-> None]
    /\ lastResume = [s \in Sessions |-> None]
    /\ turns = [s \in Sessions |-> <<>>]
    /\ chroma = <<>>
    /\ events = 0
    /\ now \in Nows
    /\ disk = InitialDisk
    /\ upath = ""
    /\ uname = <<>>
    /\ ghlinks = <<>>
    /\ linkedin = <<>>
    /\ pdf = <<>>
    /\ sections = <<>>
    /\ backend = <<>>
    /\ \E max_repos \in MaxReposChoices :
         github = [pc |-> "lookup", username |-> "octocat", max_repos |-> max_repos,
                   profile |-> None, repos |-> <<>>, page |-> 1, requests |-> <<>>,
                   error_count |-> 0, result |-> None]

NextGithub == LookupUser \/ FetchPage \/ ComputeStats

SpecGithub == InitGithub /\ [][NextGithub]_vars

\* the requests of the call that failed
FailedRequests == SelectSeq(github.requests, LAMBDA r : r.status = 0 \/ r.status >= 400)

\* parse_github_user has returned
GithubDone == github.pc = "done"

\* C12: when the user lookup answers 404 Not Found, parse_github_user returns a
\* result with empty profile, repositories and stats and meta.error equal to
\* "User not found", and asks for no repository page.
C12_MissingUserIsReported ==
    (GithubDone /\ github.requests[1].status = 404) =>
        /\ Val(github.result) =
               ParseResult(None, <<>>, None, Meta(github.username, "User not found", None))
        /\ Len(github.requests) = 1

\* the result of the finished call and what it was computed from
GithubResult == Val(github.result)
GithubStats == Val(GithubResult.stats)
HasStats == GithubDone /\ IsSet(GithubResult.stats)

\* C14: meta.error_count of the result equals the number of requests that
\* failed during the parse.
C14_ErrorCountCountsFailures ==
    (HasStats /\ IsSet(GithubResult.meta.error_count)) =>
        Val(GithubResult.meta.error_count) = Len(FailedRequests)

\* the push timestamps of the repositories of the result
PushTimes ==
    {Val(GithubResult.repositories[i].pushed_at) :
        i \in {j \in DOMAIN GithubResult.repositories :
                   IsSet(GithubResult.repositories[j].pushed_at)}}

LatestPush == CHOOSE t \in PushTimes : \A u \in PushTimes : u <= t

\* whole days between the latest push and the clock
WholeDays == (now - LatestPush) \div PerDay

\* C16: activity_level is a function of the whole days since the most recent
\* push among the fetched repositories: fewer than 3 gives high, 3 to fewer than
\* 14 medium, 14 to fewer than 45 low, 45 or more none; without any push
\* timestamp it is none.
C16_ActivityByWholeDays ==
    HasStats =>
        GithubStats.activity_level =
            IF PushTimes = {} THEN "none"
            ELSE IF WholeDays < 3 THEN "high"
            ELSE IF WholeDays < 14 THEN "medium"
            ELSE IF WholeDays < 45 THEN "low"
            ELSE "none"

\* C16 witness: the latest push is 44 and a half days old and the level is low
C16_Witness ==
    /\ HasStats
    /\ PushTimes # {}
    /\ now - LatestPush = 89
    /\ GithubStats.activity_level = "low"

\* the latest push is exactly `days` days before the clock
PushedDaysAgo(days) == HasStats /\ PushTimes # {} /\ now - LatestPush = days * PerDay

\* C17 as claimed: a latest push 2 days before now gives high, 20 days before
\* gives medium, 50 days before gives none.
C17_TwentyDaysIsMedium ==
    /\ PushedDaysAgo(2) => GithubStats.activity_level = "high"
    /\ PushedDaysAgo(20) => GithubStats.activity_level = "medium"
    /\ PushedDaysAgo(50) => GithubStats.activity_level = "none"

\* C17 as amended: a latest push 2 days before now gives high, 20 days before
\* gives low (medium ends below 14 days), 50 days before gives none.
C17_TwentyDaysIsLow ==
    /\ PushedDaysAgo(2) => GithubStats.activity_level = "high"
    /\ PushedDaysAgo(20) => GithubStats.activity_level = "low"
    /\ PushedDaysAgo(50) => GithubStats.activity_level = "none"

\* C17 witness: the latest push is 20 days old and the level is low
C17_Witness == PushedDaysAgo(20) /\ GithubStats.activity_level = "low"

\* the repositories of the result whose primary language is lang
ReposOf(lang) ==
    {i \in DOMAIN GithubResult.repositories : Lang(GithubResult.repositories[i]) = lang}

\* the sum of size_kb over a set of repositories of the result
SizeSum(S) ==
    LET repos == GithubResult.repositories
        RECURSIVE sum(_)
        sum(V) ==
            IF V = {} THEN 0
            ELSE LET v == CHOOSE w \in V : TRUE
                 IN  SizeKb(v) * Cardinality({i \in S : repos[i] = v}) + sum(V \ {v})
    IN  sum({repos[i] : i \in S})

RECURSIVE BytesSum(_)
BytesSum(L) ==
    IF L = {} THEN 0
    ELSE LET l == CHOOSE k \in L : TRUE
         IN  GithubStats.language_bytes[l] + BytesSum(L \ {l})

\* C18: language_bytes maps each primary language ("Unknown" without one) to
\* 1024 times the summed size_kb of its repositories, so its values sum to 1024
\* times the total size; top_languages lists each language once, by bytes
\* descending, with its bytes and the number of its repositories; two Python
\* repositories of 100 KB and 300 KB give Python 409600 bytes and a share of
\* 100 percent.
C18_LanguageBytes ==
    HasStats =>
        LET repos == GithubResult.repositories
            bytes == GithubStats.language_bytes
            top == GithubStats.top_languages
        IN  /\ DOMAIN bytes = {Lang(repos[i]) : i \in DOMAIN repos}
            /\ \A l \in DOMAIN bytes : bytes[l] = 1024 * SizeSum(ReposOf(l))
            /\ BytesSum(DOMAIN bytes) = 1024 * SizeSum(DOMAIN repos)
            /\ Len(top) = Cardinality(DOMAIN bytes)
            /\ {top[i].language : i \in DOMAIN top} = DOMAIN bytes
            /\ \A i \in DOMAIN top :
                  /\ top[i].bytes = bytes[top[i].language]
                  /\ top[i].repo_count = Cardinality(ReposOf(top[i].language))
                  /\ i > 1 => top[i - 1].bytes >= top[i].bytes
            /\ (/\ Len(repos) = 2
                /\ \A i \in DOMAIN repos : repos[i].language = Some("Python")
                /\ {repos[i].size_kb : i \in DOMAIN repos} = {Some(100), Some(300)})
               => /\ bytes = ("Python" :> 409600)
                  /\ top[1].percent = 10000

\* C18 witness: the result holds two Python repositories of 100 KB and 300 KB
C18_Witness ==
    /\ HasStats
    /\ Len(GithubResult.repositories) = 2
    /\ \A i \in DOMAIN GithubResult.repositories :
          GithubResult.repositories[i].language = Some("Python")
    /\ {GithubResult.repositories[i].size_kb : i \in DOMAIN GithubResult.repositories}
           = {Some(100), Some(300)}
    /\ GithubStats.language_bytes = ("Python" :> 409600)

(***************************************************************************)
(* GitHubLinkParser (agents/Resume_Praser/improved_resume.py).  A URL is   *)
(* "https://github.com/" followed by the user segment, then optionally by  *)
(* "/" and the repository segment and a further path, or by a query.  In a *)
(* segment "a" stands for any letter or digit.                             *)
(***************************************************************************)
MaxNameLen == 3     \* longest user or repository segment explored
MaxLinks == 3       \* longest list given to analyze_github_links

NameChars == {"a", "-", ".", "_"}

\* the segments explored: they begin with a letter or digit
Names ==
    {n \in UNION {[1..k -> NameChars] : k \in 1..MaxNameLen} : n[1] = "a"}

\* a link: is_str is FALSE for an entry of the list that is not a string
Url(is_str, user, repo, rest, query) ==
    [is_str |-> is_str, user |-> user, repo |-> repo, rest |-> rest, query |-> query]

Urls ==
    {Url(TRUE, u, None, FALSE, q) : u \in Names, q \in BOOLEAN}
    \cup {Url(TRUE, u, Some(r), rest, FALSE) : u \in Names, r \in Names, rest \in BOOLEAN}

\* [A-Za-z0-9][-A-Za-z0-9]*[A-Za-z0-9]
UserPattern(n) ==
    /\ Len(n) >= 2
    /\ n[1] = "a" /\ n[Len(n)] = "a"
    /\ \A i \in 2..(Len(n) - 1) : n[i] \in {"a", "-"}

\* [A-Za-z0-9][-A-Za-z0-9._]*[A-Za-z0-9]
RepoPattern(n) ==
    /\ Len(n) >= 2
    /\ n[1] = "a" /\ n[Len(n)] = "a"
    /\ \A i \in 2..(Len(n) - 1) : n[i] \in {"a", "-", ".", "_"}

GithubInfo(username, repository, url_type) ==
    [username |-> username, repository |-> repository, url_type |-> url_type]

\* extract_github_info_from_url: the repository patterns are tried first; the
\* segment before "/" or the end of the URL has to match its pattern as a whole
extract_github_info_from_url(url) ==
    IF IsSet(url.repo) /\ UserPattern(url.user) /\ RepoPattern(Val(url.repo))
    THEN GithubInfo(Some(url.user), url.repo, "repository")
    ELSE IF ~IsSet(url.repo) /\ UserPattern(url.user)
    THEN GithubInfo(Some(url.user), None, "profile")
    ELSE GithubInfo(None, None, "unknown")

otherThanLinks ==
    <<snaps, pc, trace, pending, result, lastResume, turns, chroma, disk, now, events,
      upath, uname, github, linkedin, pdf, sections, backend>>

\* one URL is given to extract_github_info_from_url
InitUrl ==
    /\ AgentInit
    /\ disk = InitialDisk
    /\ upath = ""
    /\ uname = <<>>
    /\ github = <<>>
    /\ linkedin = <<>>
    /\ pdf = <<>>
    /\ sections = <<>>
    /\ backend = <<>>
    /\ \E url \in Urls : ghlinks = [url |-> url, github_info |-> None]

ExtractInfo ==
    /\ ghlinks.github_info = None
    /\ ghlinks' = [ghlinks EXCEPT
                     !.github_info = Some(extract_github_info_from_url(ghlinks.url))]
    /\ UNCHANGED otherThanLinks

SpecUrl == InitUrl /\ [][ExtractInfo]_vars

\* a segment GitHub's documentation and the repository's URL test accept
ValidName(n) == n[1] = "a"

\* C15: every URL github.com/<user> is classified as profile, every URL
\* github.com/<user>/<repo>, with or without a further path, as repository,
\* each with its username (and repository); none is reported as unknown, also
\* when a name ends in a dash or contains dots or underscores.
C15_EveryUrlIsClassified ==
    (IsSet(ghlinks.github_info) /\ ValidName(ghlinks.url.user)) =>
        LET url == ghlinks.url
            info == Val(ghlinks.github_info)
        IN  IF IsSet(url.repo)
            THEN ValidName(Val(url.repo)) =>
                    info = GithubInfo(Some(url.user), url.repo, "repository")
            ELSE info = GithubInfo(Some(url.user), None, "profile")

\* the links given to analyze_github_links: two profiles, a repository, a
\* repository whose name ends in a dash, and an entry that is not a string
LinkCatalog ==
    {Url(TRUE, <<"a", "a">>, None, FALSE, FALSE),
     Url(TRUE, <<"a", "-", "a">>, None, FALSE, TRUE),
     Url(TRUE, <<"a", "a">>, Some(<<"a", ".", "a">>), TRUE, FALSE),
     Url(TRUE, <<"a", "a">>, Some(<<"a", "-">>), FALSE, FALSE),
     Url(FALSE, <<"a">>, None, FALSE, FALSE)}

\* what the GitHub API does for one link: whether fetch_github_profile,
\* fetch_github_repositories and fetch_repository_details get their answer
FetchOutcomes == [profile : BOOLEAN, top : BOOLEAN, details : BOOLEAN]

\* analyze_github_links, lines 972-1008: what the loop body does with one link
\*   "raised"        url.strip() raised and the except clause recorded it
\*   "no_username"   no username could be extracted
\*   "recorded"      the profile or repository was fetched and recorded
\*   "fetch_error"   the fetch returned an error
\*   "known"         a profile link of a user whose profile is already recorded
link_outcome(link, profiles, env) ==
    IF ~link.is_str THEN "raised"
    ELSE LET github_info == extract_github_info_from_url(link)
         IN  IF ~IsSet(github_info.username) THEN "no_username"
             ELSE IF github_info.url_type = "repository"
             THEN (IF env.details THEN "recorded" ELSE "fetch_error")
             ELSE IF Val(github_info.username) \in profiles THEN "known"
             ELSE IF env.profile THEN "recorded" ELSE "fetch_error"

\* the loop left at the first link that could not be recorded
next_link_abort(i, n, outcome) ==
    IF outcome \in {"raised", "no_username", "fetch_error"} THEN n + 1 ELSE i + 1

\* for link in github_links: the index handled after link i of n
next_link(i, n, outcome) == i + 1

\* the entries a link adds to analysis_summary.errors
errors_of(i, outcome) ==
    IF outcome \in {"raised", "no_username", "fetch_error"}
    THEN <<[link |-> i, kind |-> outcome]>> ELSE <<>>

\* analyze_github_links: the loop body for the link at index i
ProcessLink ==
    /\ ghlinks.pc = "loop"
    /\ ghlinks.i <= Len(ghlinks.links)
    /\ \E env \in FetchOutcomes :
         LET link == ghlinks.links[ghlinks.i]
             outcome == link_outcome(link, ghlinks.profiles, env)
             github_info == extract_github_info_from_url(link)
             fetches == (outcome \in {"recorded", "fetch_error"})
             repository == fetches /\ github_info.url_type = "repository"
         IN  \* an answer that is not asked for is not explored
             /\ (~fetches \/ repository) => env.profile
             /\ ~(fetches /\ ~repository /\ env.profile) => env.top
             /\ ~repository => env.details
             /\ ghlinks' = [ghlinks EXCEPT
                  !.i = next_link(ghlinks.i, Len(ghlinks.links), outcome),
                  !.handled = Append(@, [link |-> ghlinks.i, outcome |-> outcome]),
                  !.errors = @ \o errors_of(ghlinks.i, outcome),
                  !.unique_users =
                      IF outcome \in {"raised", "no_username"} THEN @
                      ELSE @ \cup {Val(github_info.username)},
                  !.profiles =
                      IF outcome = "recorded" /\ ~repository
                      THEN @ \cup {Val(github_info.username)} ELSE @,
                  !.repositories =
                      IF outcome = "recorded" /\ repository
                      THEN @ \cup {<<Val(github_info.username), Val(github_info.repository)>>}
                      ELSE @]
    /\ UNCHANGED otherThanLinks

\* analyze_github_links, lines 1010-1013: the loop is over, the results are returned
ReturnResults ==
    /\ ghlinks.pc = "loop"
    /\ ghlinks.i > Len(ghlinks.links)
    /\ ghlinks' = [ghlinks EXCEPT !.pc = "returned"]
    /\ UNCHANGED otherThanLinks

\* analyze_github_links(github_links) is called
InitLinks ==
    /\ AgentInit
    /\ disk = InitialDisk
    /\ upath = ""
    /\ uname = <<>>
    /\ github = <<>>
    /\ linkedin = <<>>
    /\ pdf = <<>>
    /\ sections = <<>>
    /\ backend = <<>>
    /\ \E github_links \in UNION {[1..n -> LinkCatalog] : n \in 0..MaxLinks} :
         ghlinks = [pc |-> "loop", links |-> github_links, i |-> 1, handled |-> <<>>,
                    errors |-> <<>>, unique_users |-> {}, profiles |-> {},
                    repositories |-> {}]

NextLinks == ProcessLink \/ ReturnResults

\* the loop ends and the function returns
SpecLinks == InitLinks /\ [][NextLinks]_vars /\ WF_vars(NextLinks)

\* the links handled so far that added an entry to the errors
FailedLinks ==
    SelectSeq(ghlinks.handled,
              LAMBDA h : h.outcome \in {"raised", "no_username", "fetch_error"})

\* the links are handled in the order of the input, none is left out, a link
\* without username, with a failed fetch or with a raising step has exactly one
\* entry in the errors and every other link none, and a returned call has
\* handled every link
LinksHandledInOrder ==
    /\ Len(ghlinks.handled) = ghlinks.i - 1
    /\ \A k \in DOMAIN ghlinks.handled : ghlinks.handled[k].link = k
    /\ Len(ghlinks.errors) = Len(FailedLinks)
    /\ \A k \in DOMAIN ghlinks.errors : ghlinks.errors[k].link = FailedLinks[k].link
    /\ ghlinks.pc = "returned" => Len(ghlinks.handled) = Len(ghlinks.links)

\* C13: analyze_github_links handles every link of its input in order and
\* always returns; a link whose username cannot be extracted, whose fetch
\* returns an error or whose processing raises adds exactly one entry to the
\* errors and does not keep a later link from being fetched and recorded.
C13_EveryLinkIsHandled == []LinksHandledInOrder /\ <>(ghlinks.pc = "returned")

\* C13 witness: the call returned after a link that raised, a link without
\* username and a link that was fetched and recorded after them
C13_Witness ==
    /\ ghlinks.pc = "returned"
    /\ Len(ghlinks.handled) = 3
    /\ ghlinks.handled[1].outcome = "raised"
    /\ ghlinks.handled[2].outcome = "no_username"
    /\ ghlinks.handled[3].outcome = "recorded"
    /\ Len(ghlinks.errors) = 2

\* ---------------------------------------------------------------------------
\* LinkedInProfileScraper and analyze_linkedin_profile
\* (src/agents/Linkedin_Praser/linkedin_praser.py)
\* ---------------------------------------------------------------------------

\* the URLs given to the scraper; extract_linkedin_username finds a username in
\* the first two
LinkedinUrls == {"https://linkedin.com/in/test-user", "https://linkedin.com/in/ann",
                 "https://example.com/ann"}

extract_linkedin_username(linkedin_url) ==
    IF linkedin_url \in {"https://linkedin.com/in/test-user", "https://linkedin.com/in/ann"}
    THEN Some(linkedin_url) ELSE None

\* what extract_linkedin_from_resume can return: the links of the resume
\* without duplicates, [] when there are none or when the resume fails
ResumeLinkLists ==
    {<<>>, <<"https://linkedin.com/in/ann">>,
     <<"https://linkedin.com/in/ann", "https://example.com/ann">>,
     <<"https://example.com/ann", "https://linkedin.com/in/ann">>}

\* what the BrightData request can do: status 200 with a JSON object, status
\* 200 with JSON that is not an object, another status, or an exception
ApiOutcomes == {"object", "not_object", "status", "raised"}

\* what the GET of the profile page can do
HttpOutcomes == {"200", "429", "403", "500", "timeout", "raised"}

\* a scraping result: the keys 'error', 'status' and 'method', "" for a key
\* that is absent; skills_are_strings tells whether 'skills' can be joined
ProfileData(error, status, method, skills_are_strings) ==
    [error |-> error, status |-> status, method |-> method,
     skills_are_strings |-> skills_are_strings]

\* BrightDataScraper.scrape_linkedin_profile
brightdata_scrape(api) ==
    CASE api \in {"object", "not_object"} -> ProfileData("", "success", "brightdata_api", TRUE)
      [] api = "status" -> ProfileData("BrightData API error", "", "", TRUE)
      [] OTHER          -> ProfileData("BrightData scraping failed", "", "", TRUE)

\* _process_brightdata_result: data.get raises on JSON that is not an object,
\* and the exception becomes an error dictionary
process_brightdata_result(api, skills_are_strings) ==
    IF api = "object"
    THEN ProfileData("", "success_brightdata", "brightdata_api", skills_are_strings)
    ELSE ProfileData("Failed to process BrightData result", "", "", TRUE)

\* scrape_linkedin_profile_basic
scrape_linkedin_profile_basic(linkedin_url, http) ==
    IF ~IsSet(extract_linkedin_username(linkedin_url))
    THEN ProfileData("Invalid LinkedIn URL format", "", "", TRUE)
    ELSE CASE http = "200"     -> ProfileData("", "partially_extracted", "basic_scraping", TRUE)
           [] http = "429"     -> ProfileData("Rate limited by LinkedIn", "", "", TRUE)
           [] http = "403"     -> ProfileData("Access forbidden by LinkedIn", "", "", TRUE)
           [] http = "timeout" -> ProfileData("Request timeout when accessing LinkedIn", "", "", TRUE)
           [] http = "raised"  -> ProfileData("Failed to scrape LinkedIn profile", "", "", TRUE)
           [] OTHER            -> ProfileData("HTTP: Could not access LinkedIn profile", "", "", TRUE)

\* the last return of scrape_linkedin_profile_enhanced
AccessDenied == ProfileData("LinkedIn access denied", "access_denied", "", TRUE)

\* the result of analyze_linkedin_profile; linkedin_found is None when the
\* dictionary has no such key
AnalysisResult(error, message, linkedin_found, has_profile) ==
    [error |-> error, message |-> message, linkedin_found |-> linkedin_found,
     has_profile |-> has_profile]

access_denied_error_only(profile_data) == profile_data.error # ""

\* analyze_linkedin_profile, line 473: scraping failed or is limited
access_denied(profile_data) ==
    profile_data.error # "" \/ profile_data.status = "partially_extracted"

otherThanLinkedin ==
    <<snaps, pc, trace, pending, result, lastResume, turns, chroma, disk, now, events,
      upath, uname, github, ghlinks, pdf, sections, backend>>

\* analyze_linkedin_profile is called with a URL, a resume path, both or none
InitLinkedin ==
    /\ AgentInit
    /\ disk = InitialDisk
    /\ upath = ""
    /\ uname = <<>>
    /\ github = <<>>
    /\ ghlinks = <<>>
    /\ pdf = <<>>
    /\ sections = <<>>
    /\ backend = <<>>
    /\ \E token \in BOOLEAN, chat \in BOOLEAN,
          url \in {None} \cup {Some(u) : u \in LinkedinUrls},
          path \in {None, Some("Ann.pdf")} :
         linkedin = [pc |-> "start", BRIGHTDATA_API_TOKEN |-> token, chat_model |-> chat,
                     linkedin_url |-> url, resume_file_path |-> path,
                     linkedin_links |-> <<>>, attempts |-> <<>>,
                     brightdata_result |-> None, basic_result |-> None,
                     profile_data |-> None, result |-> None, raised |-> FALSE]

\* analyze_linkedin_profile, lines 436-460: the source of the LinkedIn URL
DetermineLinks ==
    /\ linkedin.pc = "start"
    /\ \E found \in ResumeLinkLists :
         linkedin' =
           IF IsSet(linkedin.linkedin_url)
           THEN [linkedin EXCEPT !.pc = "scrape",
                                 !.linkedin_links = <<Val(linkedin.linkedin_url)>>]
           ELSE IF IsSet(linkedin.resume_file_path)
           THEN IF found = <<>>
                THEN [linkedin EXCEPT
                        !.pc = "returned",
                        !.result = Some(AnalysisResult(
                            "No LinkedIn profile found in resume",
                            "LinkedIn link not provided and none found in resume",
                            Some(FALSE), FALSE))]
                ELSE [linkedin EXCEPT !.pc = "scrape", !.linkedin_links = found]
           ELSE [linkedin EXCEPT
                   !.pc = "returned",
                   !.result = Some(AnalysisResult(
                       "No LinkedIn URL or resume file provided",
                       "Please provide either a LinkedIn URL or a resume file path",
                       Some(FALSE), FALSE))]
    /\ UNCHANGED otherThanLinkedin

\* scrape_linkedin_profile_enhanced, lines 155-164: the BrightData API, when
\* the token is configured
TryBrightData ==
    /\ linkedin.pc = "scrape"
    /\ linkedin.BRIGHTDATA_API_TOKEN
    /\ \E api \in ApiOutcomes, skills_are_strings \in BOOLEAN :
         LET brightdata_result == brightdata_scrape(api)
         IN  linkedin' =
               IF brightdata_result.error = ""
               THEN [linkedin EXCEPT
                       !.pc = "scraped",
                       !.attempts = Append(@, "api"),
                       !.brightdata_result = Some(brightdata_result),
                       !.profile_data =
                           Some(process_brightdata_result(api, skills_are_strings))]
               ELSE [linkedin EXCEPT
                       !.pc = "fallback",
                       !.attempts = Append(@, "api"),
                       !.brightdata_result = Some(brightdata_result)]
    /\ UNCHANGED otherThanLinkedin

\* scrape_linkedin_profile_enhanced, lines 166-179: the basic scraping and the
\* access-denied result
TryBasic ==
    /\ \/ linkedin.pc = "fallback"
       \/ linkedin.pc = "scrape" /\ ~linkedin.BRIGHTDATA_API_TOKEN
    /\ \E http \in HttpOutcomes :
         LET basic_result == scrape_linkedin_profile_basic(linkedin.linkedin_links[1], http)
         IN  linkedin' = [linkedin EXCEPT
                            !.pc = "scraped",
                            !.attempts = Append(@, "direct"),
                            !.basic_result = Some(basic_result),
                            !.profile_data = IF basic_result.error = ""
                                             THEN Some(basic_result)
                                             ELSE Some(AccessDenied)]
    /\ UNCHANGED otherThanLinkedin

\* analyze_linkedin_profile, lines 472-513: the access-denied result, or the
\* summary, the result and its display, which joins the skills
CompileResult ==
    /\ linkedin.pc = "scraped"
    /\ LET profile_data == Val(linkedin.profile_data)
       IN  linkedin' =
             IF access_denied(profile_data)
             THEN [linkedin EXCEPT
                     !.pc = "returned",
                     !.result = Some(AnalysisResult(
                         "LinkedIn access denied",
                         "Cannot parse LinkedIn profile due to access restrictions",
                         None, FALSE))]
             ELSE IF ~profile_data.skills_are_strings
             THEN [linkedin EXCEPT !.pc = "raised", !.raised = TRUE]
             ELSE [linkedin EXCEPT
                     !.pc = "returned",
                     !.result = Some(AnalysisResult("", "", Some(TRUE), TRUE))]
    /\ UNCHANGED otherThanLinkedin

NextLinkedin == DetermineLinks \/ TryBrightData \/ TryBasic \/ CompileResult

SpecLinkedin == InitLinkedin /\ [][NextLinkedin]_vars

\* scrape_linkedin_profile_enhanced has returned
Scraped == linkedin.pc \in {"scraped", "returned", "raised"} /\ IsSet(linkedin.profile_data)

\* the API delivered profile data
ApiDelivered ==
    /\ IsSet(linkedin.brightdata_result)
    /\ Val(linkedin.profile_data).status = "success_brightdata"
    /\ Val(linkedin.profile_data).error = ""

\* C19: scrape_linkedin_profile_enhanced tries the scraping API first and only
\* with a configured token, tries the direct fetch if and only if the API was
\* not configured or did not deliver profile data, and returns the
\* access-denied result only after the direct fetch has failed as well.
C19_OrderedFallbackChain ==
    /\ "api" \in Range(linkedin.attempts) =>
         linkedin.BRIGHTDATA_API_TOKEN /\ linkedin.attempts[1] = "api"
    /\ Scraped =>
         /\ "direct" \in Range(linkedin.attempts)
              <=> (~linkedin.BRIGHTDATA_API_TOKEN \/ ~ApiDelivered)
         /\ Val(linkedin.profile_data) = AccessDenied =>
              /\ IsSet(linkedin.basic_result)
              /\ Val(linkedin.basic_result).error # ""

\* analyze_linkedin_profile has ended, by a return or by an exception
LinkedinEnded == linkedin.pc \in {"returned", "raised"}

\* no profile data could be obtained: there is neither a URL nor a resume, the
\* resume has no LinkedIn link, every scraping method failed, or only the
\* partial basic extraction succeeded
NoProfileData ==
    \/ ~IsSet(linkedin.linkedin_url) /\ ~IsSet(linkedin.resume_file_path)
    \/ linkedin.linkedin_links = <<>>
    \/ /\ IsSet(linkedin.profile_data)
       /\ \/ Val(linkedin.profile_data).error # ""
          \/ Val(linkedin.profile_data).status = "partially_extracted"

\* C20: when no profile data can be obtained, analyze_linkedin_profile does
\* not raise and returns a result with an error and a message in which
\* linkedin_found is not true; linkedin_found is true only when the full
\* profile data was obtained.
C20_NoDataIsAStructuredResult ==
    LinkedinEnded =>
      /\ NoProfileData =>
           /\ ~linkedin.raised
           /\ IsSet(linkedin.result)
           /\ Val(linkedin.result).error # ""
           /\ Val(linkedin.result).message # ""
           /\ Val(linkedin.result).linkedin_found # Some(TRUE)
      /\ (IsSet(linkedin.result) /\ Val(linkedin.result).linkedin_found = Some(TRUE)) =>
           /\ IsSet(linkedin.profile_data)
           /\ Val(linkedin.profile_data).error = ""
           /\ Val(linkedin.profile_data).status = "success_brightdata"

\* C20 witness: the API failed, the basic scraping extracted a partial profile,
\* and the call returned the access-denied result without linkedin_found
C20_Witness ==
    /\ linkedin.pc = "returned"
    /\ linkedin.attempts = <<"api", "direct">>
    /\ Val(linkedin.basic_result).status = "partially_extracted"
    /\ Val(linkedin.result).error = "LinkedIn access denied"
    /\ Val(linkedin.result).linkedin_found = None

\* ---------------------------------------------------------------------------
\* extract_hyperlinks_from_pdf (src/agents/Resume_Praser/improved_resume.py)
\* ---------------------------------------------------------------------------
MaxPages == 2       \* pages of a PDF explored

Categories ==
    {"github", "linkedin", "research_publications", "certifications", "social_media", "other"}

\* the URIs of the link annotations met; "" is an annotation without a URI
Uris == {"https://github.com/ann", "https://linkedin.com/in/ann", "https://ann.dev", ""}

categorize_link(url) ==
    CASE url = "https://github.com/ann"      -> "github"
      [] url = "https://linkedin.com/in/ann" -> "linkedin"
      [] OTHER                               -> "other"

\* what page.get_links() returns for the pages of the catalogue
PageCatalog ==
    {<<>>, <<"https://github.com/ann">>, <<"https://github.com/ann", "https://linkedin.com/in/ann">>,
     <<"", "https://ann.dev">>}

\* the six lists created by the literal of default_result, all empty
EmptyLists == [c \in Categories |-> <<>>]

link_info(url, page_num) == [url |-> url, page |-> page_num + 1]

\* lines 109-122: the links of one page appended to the lists of their categories
RECURSIVE append_links(_, _, _)
append_links(lists, link_list, page_num) ==
    IF link_list = <<>> THEN lists
    ELSE LET url == Head(link_list)
             category == categorize_link(url)
             more == IF url # "" /\ category \in DOMAIN lists
                     THEN [lists EXCEPT ![category] = Append(@, link_info(url, page_num))]
                     ELSE lists
         IN  append_links(more, Tail(link_list), page_num)

\* lines 127-135: the first link of every URL, in order
RECURSIVE unique_links(_)
unique_links(ls) ==
    IF ls = <<>> THEN <<>>
    ELSE LET front == unique_links(SubSeq(ls, 1, Len(ls) - 1))
             x == ls[Len(ls)]
         IN  IF \E k \in DOMAIN front : front[k].url = x.url THEN front ELSE Append(front, x)

otherThanPdf ==
    <<snaps, pc, trace, pending, result, lastResume, turns, chroma, disk, now, events,
      upath, uname, github, ghlinks, linkedin, sections, backend>>

\* extract_hyperlinks_from_pdf is called with a path; "lists" are the six list
\* objects of default_result, which links = default_result.copy() shares
InitPdf ==
    /\ AgentInit
    /\ disk = InitialDisk
    /\ upath = ""
    /\ uname = <<>>
    /\ github = <<>>
    /\ ghlinks = <<>>
    /\ linkedin = <<>>
    /\ sections = <<>>
    /\ backend = <<>>
    /\ \E fitz \in BOOLEAN, is_pdf \in BOOLEAN, exists \in BOOLEAN,
          pages \in UNION {[1..n -> PageCatalog] : n \in 0..MaxPages} :
         pdf = [pc |-> "start", FITZ_AVAILABLE |-> fitz, is_pdf |-> is_pdf,
                exists |-> exists, pages |-> pages, page_num |-> 0,
                lists |-> EmptyLists, outcome |-> "", result |-> None]

\* lines 85-103: the three early returns of default_result, and fitz.open
OpenPdf ==
    /\ pdf # <<>>
    /\ pdf.pc = "start"
    /\ \E opens \in BOOLEAN :
         pdf' =
           IF ~pdf.FITZ_AVAILABLE
           THEN [pdf EXCEPT !.pc = "returned", !.outcome = "unavailable",
                            !.result = Some(pdf.lists)]
           ELSE IF ~pdf.is_pdf
           THEN [pdf EXCEPT !.pc = "returned", !.outcome = "not_pdf",
                            !.result = Some(pdf.lists)]
           ELSE IF ~pdf.exists
           THEN [pdf EXCEPT !.pc = "returned", !.outcome = "missing",
                            !.result = Some(pdf.lists)]
           ELSE IF ~opens
           THEN [pdf EXCEPT !.pc = "returned", !.outcome = "exception",
                            !.result = Some(pdf.lists)]
           ELSE [pdf EXCEPT !.pc = "pages"]
    /\ UNCHANGED otherThanPdf

\* lines 105-122: one page is loaded and its links are appended; an exception
\* goes to the except clause, which returns default_result
ReadPage ==
    /\ pdf # <<>>
    /\ pdf.pc = "pages"
    /\ pdf.page_num < Len(pdf.pages)
    /\ \E loads \in BOOLEAN :
         pdf' =
           IF loads
           THEN [pdf EXCEPT
                   !.page_num = @ + 1,
                   !.lists = append_links(@, pdf.pages[pdf.page_num + 1], pdf.page_num)]
           ELSE [pdf EXCEPT !.pc = "returned", !.outcome = "exception",
                            !.result = Some(pdf.lists)]
    /\ UNCHANGED otherThanPdf

\* lines 124-141: the document is closed, every category of links is given a
\* new list without duplicates, and links is returned
ReturnLinks ==
    /\ pdf # <<>>
    /\ pdf.pc = "pages"
    /\ pdf.page_num = Len(pdf.pages)
    /\ pdf' = [pdf EXCEPT
                 !.pc = "returned", !.outcome = "extracted",
                 !.result = Some([c \in DOMAIN pdf.lists |-> unique_links(pdf.lists[c])])]
    /\ UNCHANGED otherThanPdf

NextPdf == OpenPdf \/ ReadPage \/ ReturnLinks

SpecPdf == InitPdf /\ [][NextPdf]_vars

\* C21: extract_hyperlinks_from_pdf does not raise, and whenever it cannot
\* complete the extraction (no PyMuPDF, not a PDF, no file, or an exception,
\* also one on a later page after links of earlier pages were collected) its
\* result has all six categories, each of them empty.
C21_FailureIsEmptyResult ==
    (pdf.pc = "returned" /\ pdf.outcome # "extracted") =>
        /\ IsSet(pdf.result)
        /\ DOMAIN Val(pdf.result) = Categories
        /\ \A c \in Categories : Val(pdf.result)[c] = <<>>

\* ---------------------------------------------------------------------------
\* ResumeProcessor.split_resume_into_sections: the loop over the sections
\* (src/agents/Resume_Praser/improved_resume.py)
\* ---------------------------------------------------------------------------
MaxMatches == 2         \* matches of one header pattern explored
MIN_SECTION_LEN == 20   \* len(section_text) > 20
CHUNK_SIZE == 400       \* RecursiveCharacterTextSplitter(chunk_size=400)

\* two of the section names, in the order of the dictionary
SectionNames == <<"summary", "skills">>

\* the lengths of the stripped text of a match
MatchLens == {0, 20, 21, 450}

\* self.splitter.split_text(section_text): the number of chunks of a text
split_text(len) == IF len = 0 THEN 0 ELSE IF len <= CHUNK_SIZE THEN 1 ELSE 2

\* the documents of one match, lines 409-425
section_documents(section_name, k, len) ==
    [i \in 1..split_text(len) |->
        [section |-> section_name, match |-> k, chunk_index |-> i - 1,
         total_chunks |-> split_text(len)]]

\* line 403: the match is long enough to be a section
long_enough(len) == len # 0 /\ len > MIN_SECTION_LEN

otherThanSections ==
    <<snaps, pc, trace, pending, result, lastResume, turns, chroma, disk, now, events,
      upath, uname, github, ghlinks, linkedin, pdf, backend>>

\* split_resume_into_sections has appended the contact document; matches are
\* what re.findall returns for the pattern of each section
InitSections ==
    /\ AgentInit
    /\ disk = InitialDisk
    /\ upath = ""
    /\ uname = <<>>
    /\ github = <<>>
    /\ ghlinks = <<>>
    /\ linkedin = <<>>
    /\ pdf = <<>>
    /\ backend = <<>>
    /\ \E matches \in [Range(SectionNames) ->
                         UNION {[1..n -> MatchLens] : n \in 0..MaxMatches}] :
         sections = [pc |-> "loop", matches |-> matches, s |-> 1, k |-> 1,
                     documents |-> <<[section |-> "contact_info", match |-> 0,
                                      chunk_index |-> 0, total_chunks |-> 1]>>]

\* lines 401-426: one match of the section; a match that is long enough is
\* split into documents and ends the loop over the matches of the section
VisitMatch ==
    /\ sections # <<>>
    /\ sections.pc = "loop"
    /\ sections.s <= Len(SectionNames)
    /\ LET section_name == SectionNames[sections.s]
           matches == sections.matches[section_name]
       IN  /\ sections.k <= Len(matches)
           /\ sections' =
                IF long_enough(matches[sections.k])
                THEN [sections EXCEPT
                        !.documents = @ \o section_documents(section_name, sections.k,
                                                             matches[sections.k]),
                        !.s = @ + 1, !.k = 1]
                ELSE [sections EXCEPT !.k = @ + 1]
    /\ UNCHANGED otherThanSections

\* the matches of the section are used up
NextSection ==
    /\ sections # <<>>
    /\ sections.pc = "loop"
    /\ sections.s <= Len(SectionNames)
    /\ sections.k > Len(sections.matches[SectionNames[sections.s]])
    /\ sections' = [sections EXCEPT !.s = @ + 1, !.k = 1]
    /\ UNCHANGED otherThanSections

\* lines 428-429
ReturnDocuments ==
    /\ sections # <<>>
    /\ sections.pc = "loop"
    /\ sections.s > Len(SectionNames)
    /\ sections' = [sections EXCEPT !.pc = "returned"]
    /\ UNCHANGED otherThanSections

NextSections == VisitMatch \/ NextSection \/ ReturnDocuments

SpecSections == InitSections /\ [][NextSections]_vars

\* the matches of a section that have documents in the result
EmittedMatches(section_name) ==
    {d.match : d \in {x \in Range(sections.documents) : x.section = section_name}}

\* C22: for each section name only the first match of its pattern can be
\* emitted: a first match longer than 20 characters is emitted and no later
\* one, a first match of 20 characters or fewer leaves the section out, and
\* at most one match per section name has documents.
C22_OnlyFirstMatch ==
    sections.pc = "returned" =>
      \A n \in DOMAIN SectionNames :
        LET section_name == SectionNames[n]
            matches == sections.matches[section_name]
        IN  /\ Cardinality(EmittedMatches(section_name)) <= 1
            /\ EmittedMatches(section_name) \subseteq {1}
            /\ (matches # <<>> /\ matches[1] > 20) => EmittedMatches(section_name) = {1}
            /\ (matches # <<>> /\ matches[1] <= 20) => EmittedMatches(section_name) = {}

(***************************************************************************)
(* Calls of the agent on a stored or a fresh session.                      *)
(***************************************************************************)
\* the step is continue_conversation(q, s, uparam)
ContinueCall(s, q, uparam) == Idle /\ Continue(s, q, uparam)

\* the step is process_resume_and_query(p, q, s)
ProcessCall(s, p, q) == Idle /\ InOrder(s) /\ StartRun(s, p, q)

\* C23: a resume whose vector store was persisted earlier can be queried
\* without reprocessing: continue_conversation with that username on a fresh
\* session id answers the query from the persisted store of the user and does
\* not report that there is no session.
C23_PersistedUserIsAnswered ==
    [][\A s \in Sessions, q \in Queries, uparam \in UserParams :
        (/\ ContinueCall(s, q, uparam)
         /\ snaps[s] = <<>>
         /\ IsSet(uparam)
         /\ StoreCount(Val(uparam)) > 0)
        => Val(result'[s]).final_answer # Some(Answer("no_session", ""))
    ]_vars

\* C24: after process_resume_and_query has completed on a session,
\* continue_conversation on it runs only retrieve_and_answer: the stages
\* process_resume, analyze_github and analyze_linkedin are not run again, and
\* resume_data, documents, bm25_texts, github_analysis and linkedin_analysis
\* of its result are the values stored for the session.
C24_ContinueOnlyRetrieves ==
    [][\A s \in Sessions, q \in Queries, uparam \in UserParams :
        (ContinueCall(s, q, uparam) /\ snaps[s] # <<>>) =>
            LET r == Val(result'[s])
            IN  /\ trace' = trace /\ pc' = pc /\ snaps' = snaps
                /\ lastResume' = lastResume /\ chroma' = chroma
                /\ r.resume_data = Cur(s).resume_data
                /\ r.documents = Cur(s).documents
                /\ r.bm25_texts = Cur(s).bm25_texts
                /\ r.github_analysis = Cur(s).github_analysis
                /\ r.linkedin_analysis = Cur(s).linkedin_analysis
                /\ IsSet(r.retrieved_docs)
    ]_vars

\* C24 witness: a session whose workflow ran for q1 with a resume, both
\* enrichments and a vector store was continued with q2 and answered
C24_Witness ==
    \E s \in Sessions :
        /\ Finished(s)
        /\ IsSet(Cur(s).resume_data) /\ IsSet(Cur(s).vectorstore_path)
        /\ IsSet(Cur(s).github_analysis) /\ IsSet(Cur(s).linkedin_analysis)
        /\ Cur(s).user_query = "q1"
        /\ IsSet(result[s])
        /\ Val(result[s]).user_query = "q2"
        /\ Val(result[s]).final_answer = Some(Answer("answer", "q2"))
        /\ Val(result[s]).resume_data = Cur(s).resume_data

\* process_resume_and_query(p, ., s) finds processed state to reuse
Reuses(s, p) ==
    LET found == Matches(snaps[s], p, extract_username_from_resume(p, disk, now))
    IN  found # <<>> /\ IsSet(Head(found).vectorstore_path)

\* C25: when process_resume_and_query is called on a session that holds
\* processed state (a stored vectorstore_path), the query handed to the
\* workflow is the query of this call, and the answer and the new turn of the
\* run are for the query the workflow was handed.
C25_ReuseAnswersNewQuery ==
    [][\A s \in Sessions :
        /\ \A p \in Paths, q \in Queries :
              (ProcessCall(s, p, q) /\ Reuses(s, p)) => CurNext(s).user_query = q
        /\ (RetrieveStageReturns(s) /\ turns'[s] # turns[s]) =>
              /\ CurNext(s).final_answer = Some(Answer("answer", Cur(s).user_query))
              /\ Last(turns'[s]).user = Cur(s).user_query
    ]_vars

StartConcurrently(s) ==
    \E p \in Paths, q \in Queries : InOrder(s) /\ StartRun(s, p, q)

NextConcurrent ==
    \E s \in Sessions :
        \/ StartConcurrently(s)
        \/ ProcessResume(s)
        \/ AddDocuments(s)
        \/ AnalyzeGithub(s)
        \/ AnalyzeLinkedin(s)
        \/ RetrieveAndAnswer(s)

SpecConcurrent == Init /\ [][NextConcurrent]_vars

\* the item counts a single build can leave in the collection of user u
SingleBuildCounts(u) ==
    {Len(BuildOf(p)) : p \in {x \in Paths : extract_username_from_resume(x, disk, now) = u}}

\* C28: when two invocations of create_persistent_vectorstore for the same
\* username interleave at their awaits, the documents are still added at most
\* once: when no invocation is under way the item count of the collection is
\* that of a single build.
C28_InterleavedBuildsAddOnce ==
    (\A s \in Sessions : pc[s] # "add_documents") =>
        \A u \in DOMAIN chroma :
            Len(chroma[u]) = 0 \/ Len(chroma[u]) \in SingleBuildCounts(u)

\* C29: after process_resume has completed for a resume file under its
\* username, the vector hits of retrieve_and_answer for that session are
\* chunks of that file, never chunks another resume left in the collection
\* of the same username.
C29_VectorHitsAreOfTheResume ==
    \A s \in Sessions :
        (/\ pc[s] = "retrieve_and_answer"
         /\ IsSet(lastResume[s])
         /\ Val(lastResume[s]).path = Cur(s).resume_file
         /\ Val(lastResume[s]).result.documents # <<>>)
        => \A d \in Range(VectorHits(Cur(s))) : d.source = Cur(s).resume_file

\* ---------------------------------------------------------------------------
\* The HTTP backend (src/backend/main.py).  Requests are served one at a
\* time; active_sessions maps the session ids in use to their data.
\* ---------------------------------------------------------------------------
MaxRequests == 4    \* requests served
MaxUploads == 2     \* uploads accepted

\* the session ids a client can send, numbered in the order in which uuid4
\* hands them out to the uploads; 0 stands for no session id
SessionIds == [i \in 1..MaxUploads |-> i]

\* the response of an endpoint: the status code, whether it carries an answer,
\* and the branch of the handler that produced it
HttpResponse(endpoint, session_id, code, answer, branch) ==
    [endpoint |-> endpoint, session_id |-> session_id, code |-> code,
     answer |-> answer, branch |-> branch]

\* 'except Exception as e: raise HTTPException(status_code=500, ...)' around
\* the body of upload_resume, analyze_resume, continue_conversation and
\* delete_session: it also catches the HTTPException raised in the body
except_clause(status_code) == 500

Known(session_id) == session_id \in DOMAIN backend.active_sessions

\* analyze_resume with the session marked before the agent has returned
session_after_analysis_eager(session_data, returned) ==
    [session_data EXCEPT !.processed = TRUE, !.status = "completed"]

\* analyze_resume, lines 164-172: the agent is awaited, then the session is marked
session_after_analysis(session_data, returned) ==
    IF returned
    THEN [session_data EXCEPT !.processed = TRUE, !.status = "completed"]
    ELSE session_data

otherThanBackend ==
    <<snaps, pc, trace, pending, result, lastResume, turns, chroma, disk, now, events,
      upath, uname, github, ghlinks, linkedin, pdf, sections>>

InitBackend ==
    /\ AgentInit
    /\ disk = InitialDisk
    /\ upath = ""
    /\ uname = <<>>
    /\ github = <<>>
    /\ ghlinks = <<>>
    /\ linkedin = <<>>
    /\ pdf = <<>>
    /\ sections = <<>>
    /\ backend = [active_sessions |-> <<>>, uploads |-> 0, served |-> 0, response |-> None]

Serve(active_sessions, uploads, response) ==
    /\ backend.served < MaxRequests
    /\ backend' = [active_sessions |-> active_sessions, uploads |-> uploads,
                   served |-> backend.served + 1, response |-> Some(response)]
    /\ UNCHANGED otherThanBackend

\* POST /upload-resume
UploadResume ==
    \E allowed \in BOOLEAN, saved \in BOOLEAN :
        /\ backend.uploads < MaxUploads
        /\ LET session_id == SessionIds[backend.uploads + 1]
           IN  IF ~allowed
               THEN Serve(backend.active_sessions, backend.uploads,
                          HttpResponse("upload", 0, except_clause(400), FALSE, "unsupported"))
               ELSE IF ~saved
               THEN Serve(backend.active_sessions, backend.uploads + 1,
                          HttpResponse("upload", 0, except_clause(500), FALSE, "failure"))
               ELSE Serve(backend.active_sessions @@
                              (session_id :> [status |-> "uploaded", processed |-> FALSE]),
                          backend.uploads + 1,
                          HttpResponse("upload", session_id, 200, FALSE, "ok"))

\* POST /analyze-resume
AnalyzeResume ==
    \E session_id \in Range(SessionIds), exists \in BOOLEAN, returned \in BOOLEAN :
        IF ~Known(session_id)
        THEN Serve(backend.active_sessions, backend.uploads,
                   HttpResponse("analyze", session_id, except_clause(404), FALSE, "unknown_session"))
        ELSE IF ~exists
        THEN Serve(backend.active_sessions, backend.uploads,
                   HttpResponse("analyze", session_id, except_clause(404), FALSE, "file_missing"))
        ELSE Serve([backend.active_sessions EXCEPT
                       ![session_id] = session_after_analysis(@, returned)],
                   backend.uploads,
                   IF returned THEN HttpResponse("analyze", session_id, 200, TRUE, "ok")
                   ELSE HttpResponse("analyze", session_id, except_clause(500), FALSE, "failure"))

\* POST /continue-conversation
ContinueEndpoint ==
    \E session_id \in Range(SessionIds), returned \in BOOLEAN :
        IF ~Known(session_id)
        THEN Serve(backend.active_sessions, backend.uploads,
                   HttpResponse("continue", session_id, except_clause(404), FALSE, "unknown_session"))
        ELSE IF ~backend.active_sessions[session_id].processed
        THEN Serve(backend.active_sessions, backend.uploads,
                   HttpResponse("continue", session_id, except_clause(400), FALSE, "not_analyzed"))
        ELSE Serve(backend.active_sessions, backend.uploads,
                   IF returned THEN HttpResponse("continue", session_id, 200, TRUE, "ok")
                   ELSE HttpResponse("continue", session_id, except_clause(500), FALSE, "failure"))

\* GET /session/{session_id}: its HTTPException is raised outside any try
GetSessionInfo ==
    \E session_id \in Range(SessionIds) :
        Serve(backend.active_sessions, backend.uploads,
              IF Known(session_id) THEN HttpResponse("session", session_id, 200, FALSE, "ok")
              ELSE HttpResponse("session", session_id, 404, FALSE, "unknown_session"))

\* DELETE /session/{session_id}
DeleteSession ==
    \E session_id \in Range(SessionIds), removed \in BOOLEAN :
        IF ~Known(session_id)
        THEN Serve(backend.active_sessions, backend.uploads,
                   HttpResponse("delete", session_id, except_clause(404), FALSE, "unknown_session"))
        ELSE IF ~removed
        THEN Serve(backend.active_sessions, backend.uploads,
                   HttpResponse("delete", session_id, except_clause(500), FALSE, "failure"))
        ELSE Serve([id \in DOMAIN backend.active_sessions \ {session_id} |->
                       backend.active_sessions[id]],
                   backend.uploads,
                   HttpResponse("delete", session_id, 200, FALSE, "ok"))

NextBackend ==
    UploadResume \/ AnalyzeResume \/ ContinueEndpoint \/ GetSessionInfo \/ DeleteSession

SpecBackend == InitBackend /\ [][NextBackend]_vars

\* C26: the endpoints report client errors with their own status codes:
\* analyze-resume, continue-conversation and delete on an unknown session id
\* respond 404, continue-conversation on a session not yet analyzed responds
\* 400, upload of an unsupported extension responds 400, and 500 is returned
\* only for unexpected failures.
C26_ClientErrorsKeepTheirCode ==
    IsSet(backend.response) =>
        LET r == Val(backend.response)
        IN  /\ r.branch = "unknown_session" => r.code = 404
            /\ r.branch = "not_analyzed" => r.code = 400
            /\ r.branch = "unsupported" => r.code = 400
            /\ r.code = 500 => r.branch = "failure"

\* the processed flag of a session id in a value of active_sessions
Processed(active_sessions, session_id) ==
    session_id \in DOMAIN active_sessions /\ active_sessions[session_id].processed

\* C27: for every session id, over any sequence of requests: the processed
\* flag is set only by an analyze-resume request that returned without
\* raising and is never reset, continue-conversation answers only for a
\* session whose flag is set, a failed analyze-resume leaves status and flag
\* unchanged, and after delete the session is unknown to every endpoint.
C27_SessionLifecycle ==
    [][\A session_id \in Range(SessionIds) :
        LET before == backend.active_sessions
            after == backend'.active_sessions
            r == Val(backend'.response)
        IN  /\ (Processed(after, session_id) /\ ~Processed(before, session_id)) =>
                  r.endpoint = "analyze" /\ r.session_id = session_id /\ r.code = 200
            /\ (Processed(before, session_id) /\ session_id \in DOMAIN after) =>
                  Processed(after, session_id)
            /\ (r.endpoint = "continue" /\ r.session_id = session_id /\ r.answer) =>
                  Processed(before, session_id)
            /\ (r.endpoint = "analyze" /\ r.code # 200) => after = before
            /\ (r.endpoint = "delete" /\ r.session_id = session_id /\ r.code = 200) =>
                  session_id \notin DOMAIN after
            /\ (session_id \in DOMAIN before /\ session_id \notin DOMAIN after) =>
                  r.endpoint = "delete" /\ r.session_id = session_id /\ r.code = 200
            /\ (session_id \notin DOMAIN before /\ session_id \in DOMAIN after) =>
                  /\ r.endpoint = "upload"
                  /\ SessionIds[backend.uploads + 1] = session_id
            /\ (session_id \notin DOMAIN before /\ r.session_id = session_id
                /\ r.endpoint # "upload") => r.code # 200 /\ ~r.answer
            /\ backend'.uploads >= backend.uploads
    ]_vars

\* C27 witness: the first session was analyzed and then deleted, a later
\* request for it was refused, and the second session is still unprocessed
C27_Witness ==
    /\ backend.uploads = 2
    /\ ~Known(1)
    /\ Known(2) /\ ~backend.active_sessions[2].processed
    /\ IsSet(backend.response)
    /\ Val(backend.response).endpoint = "continue"
    /\ Val(backend.response).session_id = 1
    /\ Val(backend.response).code # 200

====
